---------------------------- MODULE Spec2Model ----------------------------
(***************************************************************************)
(* Model of the HSPICE report converters of bpdegnan/spicesupport:         *)
(*   hspice/dcnfet/hspice_dc_to_csv.py          (conv = "dc")              *)
(*   hspice/transnfet/hspice_trans_to_csv.py    (conv = "trans")           *)
(*   hspicecompat/gatesweep/hspice_dc_to_csv.py (conv = "gate")            *)
(*   hspicecompat/drainsweep/pfet/hspice_dc_to_csv.py (conv = "drain")     *)
(*   hspicecompat/tgate/hspice_to_csv.py        (conv = "ac")              *)
(*                                                                         *)
(* Text is modelled at character level: a string is a sequence of          *)
(* one-character strings, a report is a sequence of lines.  A decoded      *)
(* number is an exact decimal (sign, digits, power of ten); the tokens of  *)
(* the reports below are chosen so that equality and the tolerance test    *)
(* on the exact decimals agree with IEEE doubles.                          *)
(***************************************************************************)
EXTENDS Integers, Sequences, FiniteSets, TLC

(***************************************************************************)
(* Characters and strings                                                  *)
(***************************************************************************)
Digits == <<"0", "1", "2", "3", "4", "5", "6", "7", "8", "9">>

UpperChars == <<"A", "B", "C", "D", "E", "F", "G", "H", "I", "J", "K", "L", "M",
                "N", "O", "P", "Q", "R", "S", "T", "U", "V", "W", "X", "Y", "Z">>

LowerChars == <<"a", "b", "c", "d", "e", "f", "g", "h", "i", "j", "k", "l", "m",
                "n", "o", "p", "q", "r", "s", "t", "u", "v", "w", "x", "y", "z">>

IsDigit(c) == \E k \in 1..10 : Digits[k] = c

DigitVal(c) == (CHOOSE k \in 1..10 : Digits[k] = c) - 1

\* str.lower() on one character
LowerChar(c) ==
  IF \E k \in 1..26 : UpperChars[k] = c
  THEN LowerChars[CHOOSE k \in 1..26 : UpperChars[k] = c]
  ELSE c

\* str.lower()
Lower(s) == [k \in 1..Len(s) |-> LowerChar(s[k])]

IsSpace(c) == c \in {" ", "\t", "\n", "\r"}

\* s[a:] of Python, a counted from 0
From(s, a) == SubSeq(s, a + 1, Len(s))

\* str.startswith(p)
StartsWith(s, p) == Len(p) <= Len(s) /\ SubSeq(s, 1, Len(p)) = p

\* p in s
Contains(s, p) ==
  \E a \in 0..(Len(s) - Len(p)) : SubSeq(s, a + 1, a + Len(p)) = p

\* str.strip()
Strip(s) ==
  LET nonsp == {k \in 1..Len(s) : ~IsSpace(s[k])}
      lo == CHOOSE k \in nonsp : \A m \in nonsp : k <= m
      hi == CHOOSE k \in nonsp : \A m \in nonsp : k >= m
  IN IF nonsp = {} THEN <<>> ELSE SubSeq(s, lo, hi)

\* str.split(): the maximal runs of non-whitespace characters, in order
RECURSIVE SplitFrom(_, _)
SplitFrom(s, a) ==
  LET nonsp == {k \in a..Len(s) : ~IsSpace(s[k])}
      lo == CHOOSE k \in nonsp : \A m \in nonsp : k <= m
      sp == {k \in lo..Len(s) : IsSpace(s[k])}
      hi == IF sp = {} THEN Len(s) + 1 ELSE CHOOSE k \in sp : \A m \in sp : k <= m
  IN IF nonsp = {} THEN <<>>
     ELSE <<SubSeq(s, lo, hi - 1)>> \o SplitFrom(s, hi)

Split(s) == SplitFrom(s, 1)

\* str(j) for a small non-negative integer
IntToStr(j) ==
  IF j < 10 THEN <<Digits[j + 1]>>
  ELSE <<Digits[(j \div 10) + 1], Digits[(j % 10) + 1]>>

(***************************************************************************)
(* Decimal numbers: [k |-> "num", neg, dig, exp] is (-1)^neg * dig * 10^exp *)
(* with dig a digit sequence without leading or trailing zeros (zero is    *)
(* the empty digit sequence), [k |-> "inf", neg] an infinity, and          *)
(* [k |-> "nan"] a not-a-number.                                           *)
(***************************************************************************)
NaN == [k |-> "nan"]

Inf(neg) == [k |-> "inf", neg |-> neg]

IsNaN(v) == v.k = "nan"

RECURSIVE StripLeadingZeros(_)
StripLeadingZeros(d) ==
  IF d # <<>> /\ d[1] = 0 THEN StripLeadingZeros(Tail(d)) ELSE d

RECURSIVE TrailingZeros(_)
TrailingZeros(d) ==
  IF d # <<>> /\ d[Len(d)] = 0
  THEN 1 + TrailingZeros(SubSeq(d, 1, Len(d) - 1))
  ELSE 0

\* the normal form of (-1)^neg * d * 10^e
Num(neg, d, e) ==
  LET d1 == StripLeadingZeros(d)
      tz == TrailingZeros(d1)
      d2 == SubSeq(d1, 1, Len(d1) - tz)
  IN IF d2 = <<>> THEN [k |-> "num", neg |-> FALSE, dig |-> <<>>, exp |-> 0]
     ELSE [k |-> "num", neg |-> neg, dig |-> d2, exp |-> e + tz]

\* -v
Negate(v) ==
  IF v.k = "nan" THEN v
  ELSE IF v.k = "inf" THEN Inf(~v.neg)
  ELSE Num(~v.neg, v.dig, v.exp)

\* v * 10^p
Scale(v, p) == IF v.k = "num" THEN Num(v.neg, v.dig, v.exp + p) ELSE v

Zeros(n) == [k \in 1..n |-> 0]

PadLeft(d, n) == Zeros(n - Len(d)) \o d

\* a >= b for digit sequences of the same length
RECURSIVE DigitsGE(_, _)
DigitsGE(a, b) ==
  IF a = <<>> THEN TRUE
  ELSE IF a[1] # b[1] THEN a[1] > b[1]
  ELSE DigitsGE(Tail(a), Tail(b))

\* a - b for digit sequences of the same length with a >= b
RECURSIVE DigitsSub(_, _, _)
DigitsSub(a, b, borrow) ==
  IF a = <<>> THEN <<>>
  ELSE LET n == Len(a)
           x == a[n] - b[n] - borrow
       IN DigitsSub(SubSeq(a, 1, n - 1), SubSeq(b, 1, n - 1), IF x < 0 THEN 1 ELSE 0)
          \o <<IF x < 0 THEN x + 10 ELSE x>>

\* a + b for digit sequences of the same length
RECURSIVE DigitsAdd(_, _, _)
DigitsAdd(a, b, carry) ==
  IF a = <<>> THEN (IF carry = 1 THEN <<1>> ELSE <<>>)
  ELSE LET n == Len(a)
           x == a[n] + b[n] + carry
       IN DigitsAdd(SubSeq(a, 1, n - 1), SubSeq(b, 1, n - 1), x \div 10)
          \o <<x % 10>>

\* the least element of a non-empty set of integers
Least(S) == CHOOSE k \in S : \A m \in S : k <= m

Min(x, y) == IF x <= y THEN x ELSE y

Max(x, y) == IF x >= y THEN x ELSE y

\* abs(a - b) < 10^t
AbsDiffLess(a, b, t) ==
  IF a.k # "num" \/ b.k # "num" THEN FALSE
  ELSE LET e0 == Min(a.exp, b.exp)
           da == a.dig \o Zeros(a.exp - e0)
           db == b.dig \o Zeros(b.exp - e0)
           n  == Max(Len(da), Len(db))
           pa == PadLeft(da, n)
           pb == PadLeft(db, n)
           d  == StripLeadingZeros(
                   IF a.neg # b.neg THEN DigitsAdd(pa, pb, 0)
                   ELSE IF DigitsGE(pa, pb) THEN DigitsSub(pa, pb, 0)
                   ELSE DigitsSub(pb, pa, 0))
       IN IF t - e0 <= 0 THEN d = <<>> ELSE Len(d) <= t - e0

(***************************************************************************)
(* float() of Python on a string without surrounding whitespace, and the   *)
(* engineering-notation decoder.  A result is a number, [k |-> "err"]      *)
(* (ValueError raised) or [k |-> "none"] (None returned).                  *)
(***************************************************************************)
ValueErr == [k |-> "err"]

None == [k |-> "none"]

\* the digit values of a string of decimal digits
DigitSeq(s) == [k \in 1..Len(s) |-> DigitVal(s[k])]

AllDigits(s) == \A k \in 1..Len(s) : IsDigit(s[k])

\* the integer written by a short string of decimal digits
RECURSIVE DigitsToInt(_)
DigitsToInt(s) ==
  IF s = <<>> THEN 0
  ELSE 10 * DigitsToInt(SubSeq(s, 1, Len(s) - 1)) + DigitVal(s[Len(s)])

\* a decimal outside the range of a double (about 1.8e308 down to 4.9e-324)
\* becomes an infinity or zero
ToDouble(v) ==
  IF v.k # "num" \/ v.dig = <<>> THEN v
  ELSE LET adj == Len(v.dig) + v.exp - 1
       IN IF adj > 308 THEN Inf(v.neg)
          ELSE IF adj < -324 THEN Num(FALSE, <<>>, 0)
          ELSE v

\* digits, possibly grouped by single underscores between digits
Grouped(s) ==
  /\ s # <<>>
  /\ \A k \in 1..Len(s) :
       \/ IsDigit(s[k])
       \/ s[k] = "_" /\ 1 < k /\ k < Len(s) /\ IsDigit(s[k - 1]) /\ IsDigit(s[k + 1])

\* the digits of a grouped string
RECURSIVE Ungroup(_)
Ungroup(s) ==
  IF s = <<>> THEN <<>>
  ELSE IF s[1] = "_" THEN Ungroup(Tail(s))
  ELSE <<s[1]>> \o Ungroup(Tail(s))

\* the position of the first e of a string, or one past its end
FirstE(s) ==
  IF \E k \in 1..Len(s) : s[k] = "e"
  THEN Least({k \in 1..Len(s) : s[k] = "e"})
  ELSE Len(s) + 1

\* the position of the first dot of a string, or one past its end
FirstDot(s) ==
  IF \E k \in 1..Len(s) : s[k] = "."
  THEN Least({k \in 1..Len(s) : s[k] = "."})
  ELSE Len(s) + 1

\* digits [. digits] with at least one digit, or . digits
MantissaOK(ipart, fpart, dotted) ==
  /\ ipart = <<>> \/ Grouped(ipart)
  /\ fpart = <<>> \/ Grouped(fpart)
  /\ ipart # <<>> \/ fpart # <<>>
  /\ fpart = <<>> \/ dotted

\* nothing, or e [sign] digits
ExponentOK(expo) ==
  \/ expo = <<>>
  \/ /\ Len(expo) >= 2
     /\ Grouped(IF expo[2] \in {"+", "-"} THEN From(expo, 2) ELSE From(expo, 1))

\* the value of the exponent part
ExponentVal(expo) ==
  IF expo = <<>> THEN 0
  ELSE IF expo[2] = "-" THEN 0 - DigitsToInt(Ungroup(From(expo, 2)))
  ELSE IF expo[2] = "+" THEN DigitsToInt(Ungroup(From(expo, 2)))
  ELSE DigitsToInt(Ungroup(From(expo, 1)))

\* the decimal of the integer digits, the fraction digits and the exponent
FloatOf(neg, idig, fdig, e) ==
  ToDouble(Num(neg, DigitSeq(idig \o fdig), e - Len(fdig)))

\* a mantissa cut at its dot, and an exponent part
FloatParts(neg, ipart, fpart, dotted, expo) ==
  IF MantissaOK(ipart, fpart, dotted) /\ ExponentOK(expo)
  THEN FloatOf(neg, Ungroup(ipart), Ungroup(fpart), ExponentVal(expo))
  ELSE ValueErr

\* a mantissa and an exponent part
FloatDecimal(neg, mant, expo) ==
  FloatParts(neg, SubSeq(mant, 1, FirstDot(mant) - 1),
             SubSeq(mant, FirstDot(mant) + 1, Len(mant)),
             FirstDot(mant) <= Len(mant), expo)

\* a lower-cased string without its sign
FloatUnsigned(neg, s) ==
  IF s \in {<<"i", "n", "f">>, <<"i", "n", "f", "i", "n", "i", "t", "y">>}
    THEN Inf(neg)
  ELSE IF s = <<"n", "a", "n">> THEN NaN
  ELSE FloatDecimal(neg, SubSeq(s, 1, FirstE(s) - 1), SubSeq(s, FirstE(s), Len(s)))

\* float(s): [sign] (inf | infinity | nan | digits [. digits] [e [sign] digits])
Float(s) ==
  IF s # <<>> /\ s[1] \in {"+", "-"}
  THEN FloatUnsigned(s[1] = "-", Lower(Tail(s)))
  ELSE FloatUnsigned(FALSE, Lower(s))

\* SUFFIXES: the power of ten of each engineering-notation suffix
SuffixChars == {"a", "f", "p", "n", "u", "m", "k", "x", "g", "t"}

\* SUFFIXES with m read as mega
SUFFIXES_mega(c) ==
  CASE c = "a" -> -18 [] c = "f" -> -15 [] c = "p" -> -12 [] c = "n" -> -9
    [] c = "u" -> -6  [] c = "m" -> 6   [] c = "k" -> 3   [] c = "x" -> 6
    [] c = "g" -> 9   [] c = "t" -> 12

SUFFIXES(c) ==
  CASE c = "a" -> -18 [] c = "f" -> -15 [] c = "p" -> -12 [] c = "n" -> -9
    [] c = "u" -> -6  [] c = "m" -> -3  [] c = "k" -> 3   [] c = "x" -> 6
    [] c = "g" -> 9   [] c = "t" -> 12

\* float(s) * SUFFIXES[c]
TimesSuffix(v, c) == IF v.k = "err" THEN v ELSE ToDouble(Scale(v, SUFFIXES(c)))

\* the value of a string without its sign: the suffix, then float()
Magnitude(s) ==
  IF s # <<>> /\ s[Len(s)] \in SuffixChars
  THEN TimesSuffix(Float(SubSeq(s, 1, Len(s) - 1)), s[Len(s)])
  ELSE Float(s)

\* -value if negative else value; a ValueError passes through
Signed(negative, value) ==
  IF value.k = "err" THEN value
  ELSE IF negative THEN Negate(value) ELSE value

\* the value of a stripped, lower-cased token
Lowered(s) ==
  IF s = <<>> THEN None
  ELSE IF s[1] = "-" THEN Signed(TRUE, Magnitude(Tail(s)))
  ELSE Signed(FALSE, Magnitude(s))

\* parse_hspice_value of the dcnfet and transnfet converters
parse_hspice_value(tok) == Lowered(Lower(Strip(tok)))

\* the value of a stripped token in the compat converters
Stripped(s) ==
  IF s = <<>> THEN None
  ELSE IF LowerChar(s[Len(s)]) \in SuffixChars
    THEN TimesSuffix(Float(SubSeq(s, 1, Len(s) - 1)), LowerChar(s[Len(s)]))
  ELSE Float(s)

\* parse_hspice_value of the gatesweep, drainsweep and tgate converters
parse_hspice_value_compat(tok) == Stripped(Strip(tok))


(***************************************************************************)
(* Words of the report format                                              *)
(***************************************************************************)
W_volt == <<"v", "o", "l", "t">>

W_voltage == <<"v", "o", "l", "t", "a", "g", "e">>

W_current == <<"c", "u", "r", "r", "e", "n", "t">>

W_time == <<"t", "i", "m", "e">>

W_sweep == <<"s", "w", "e", "e", "p">>

W_col == <<"c", "o", "l">>

W_job == <<"j", "o", "b">>

W_cpu == <<"c", "p", "u">>

W_dc_transfer == <<"d", "c", " ", "t", "r", "a", "n", "s", "f", "e", "r">>

W_dc_analysis == <<"d", "c", " ", "a", "n", "a", "l", "y", "s", "i", "s">>

W_ac_analysis == <<"a", "c", " ", "a", "n", "a", "l", "y", "s", "i", "s">>

W_tnom == <<"t", "n", "o", "m">>

W_freq == <<"f", "r", "e", "q">>

W_db == <<"d", "b">>

W_phase == <<"p", "h", "a", "s", "e">>

W_Vam == <<"V", "a", "m", "_">>

(***************************************************************************)
(* hspice_dc_to_csv.py / hspice_trans_to_csv.py: the tests and conversions *)
(* the section scanner applies to one line                                 *)
(***************************************************************************)
\* the type tokens of the header regular expression of each scanner
HeaderVocab(c) ==
  IF c = "trans" THEN {W_time, W_volt, W_voltage, W_current}
  ELSE {W_volt, W_voltage, W_current}

\* re.match(r'^(volt(age)?|current)(\s+(volt(age)?|current))*\s*$', line)
\* on line = lines[i].strip().lower() (with time among the tokens for the
\* transient scanner)
IsHeaderLine(c, line) ==
  LET toks == Split(Lower(Strip(line)))
  IN toks # <<>> /\ \A k \in 1..Len(toks) : toks[k] \in HeaderVocab(c)

\* f'v({name})'
VName(name) == <<"v", "(">> \o name \o <<")">>

\* f'i({name})'
IName(name) == <<"i", "(">> \o name \o <<")">>

\* the column of one header slot: type token htype, name
ColumnOf(c, htype, name) ==
  IF c = "trans" /\ Lower(htype) = W_time THEN W_time
  ELSE IF Lower(htype) \in {W_volt, W_voltage} THEN VName(name)
  ELSE IName(name)

\* the column of one header slot after the shift (no test for time there)
ShiftedColumnOf(htype, name) ==
  IF Lower(htype) \in {W_volt, W_voltage} THEN VName(name) ELSE IName(name)

\* the name of the unnamed index column
IndexName(c) == IF c = "trans" THEN W_time ELSE W_sweep

\* a variant of BuildColumns that never shifts the names
BuildColumns_noshift(c, header_types, subheader_parts) ==
  [j \in 1..Len(header_types) |->
     ColumnOf(c, header_types[j],
              IF j - 1 < Len(subheader_parts) THEN subheader_parts[j]
              ELSE W_col \o IntToStr(j - 1))]

\* the columns of a section from its header and sub-header tokens
BuildColumns(c, header_types, subheader_parts) ==
  LET n == Len(header_types)
      m == Len(subheader_parts)
      plain == [j \in 1..n |->
                 ColumnOf(c, header_types[j],
                          IF j - 1 < m THEN subheader_parts[j]
                          ELSE W_col \o IntToStr(j - 1))]
      rest == Tail(header_types)
      shifted == <<IndexName(c)>> \o
                 [j \in 1..(n - 1) |->
                   ShiftedColumnOf(rest[j],
                                   IF j - 1 < m THEN subheader_parts[j]
                                   ELSE W_col \o IntToStr(j))]
  IN IF m < n THEN shifted ELSE plain

Markers == {"y", "x", "*", "$", ">"}

\* the tests that end the data rows of a section, on a stripped line that
\* is not empty
IsEndMarker(data_line) ==
  \/ LowerChar(data_line[1]) \in Markers
  \/ Contains(Lower(data_line), W_job)
  \/ ~(data_line[1] = "-" \/ IsDigit(data_line[1]))

\* [parse_hspice_value(p) for p in parts]
DecodeRow(parts) == [k \in 1..Len(parts) |-> parse_hspice_value(parts[k])]

\* the row is appended: no token raised and none decoded to None
RowAccepted(row) == \A k \in 1..Len(row) : row[k].k \notin {"err", "none"}

(***************************************************************************)
(* hspicecompat gatesweep, drainsweep and tgate: the tests and conversions *)
(* applied to one line                                                     *)
(***************************************************************************)
\* (volt|current)(\s+(volt|current))+ matched at the start of the
\* lower-cased line after its leading whitespace: the first token is a type
\* word and the second one starts with a type word
IsCompatHeader(line) ==
  LET toks == Split(Lower(line))
  IN /\ Len(toks) >= 2
     /\ toks[1] \in {W_volt, W_current}
     /\ (StartsWith(toks[2], W_volt) \/ StartsWith(toks[2], W_current))

\* 'dc transfer' in line.lower() or 'dc analysis' in line.lower()
IsDcMarker(line) ==
  Contains(Lower(line), W_dc_transfer) \/ Contains(Lower(line), W_dc_analysis)

\* re.match(r'^[\-\d\.]', line)
LooksNumeric(line) ==
  line # <<>> /\ (line[1] \in {"-", "."} \/ IsDigit(line[1]))

\* re.match(r'^[\-\d]', line)
StartsNumber(line) == line # <<>> /\ (line[1] = "-" \/ IsDigit(line[1]))

\* [parse_hspice_value(p) for p in parts] of the compat converters
DecodeRowCompat(parts) ==
  [k \in 1..Len(parts) |-> parse_hspice_value_compat(parts[k])]

\* what the data loop of the gatesweep parser does with a stripped line:
\* "skip" (continue), "stop" (break) or "row" (decode it)
GateRowKind(line) ==
  IF line = <<>> THEN "skip"
  ELSE IF line[1] \in {"y", "*", "$"} THEN "stop"
  ELSE IF Contains(Lower(line), W_job) \/ Contains(Lower(line), W_cpu) THEN "stop"
  ELSE IF line[1] = "x" THEN "skip"
  ELSE IF ~StartsNumber(Split(line)[1]) THEN "skip"
  ELSE "row"

\* the same for the drainsweep parser
DrainRowKind(line) ==
  IF line = <<>> THEN "stop"
  ELSE IF line[1] \in {"y", "*", "$", "x"} THEN "stop"
  ELSE IF Contains(Lower(line), W_job) THEN "stop"
  ELSE IF ~StartsNumber(line) THEN "skip"
  ELSE "row"

\* the same for the tgate parser
ACRowKind(line) ==
  IF line = <<>> THEN "stop"
  ELSE IF line[1] \in {"y", "*"} THEN "stop"
  ELSE IF Contains(Lower(line), W_job) THEN "stop"
  ELSE IF ~StartsNumber(Split(line)[1]) THEN "skip"
  ELSE "row"

\* 'ac analysis' in line.lower() and 'tnom' in line.lower()
IsACMarker(line) ==
  Contains(Lower(line), W_ac_analysis) /\ Contains(Lower(line), W_tnom)

\* 'freq' in line.lower()
IsFreqLine(line) == Contains(Lower(line), W_freq)

\* lines[j].strip() and not lines[j].strip().startswith('x')
ACCounts(line) == Strip(line) # <<>> /\ Strip(line)[1] # "x"

\* re.match(r'\s*\d', line)
SpacesThenDigit(line) == Strip(line) # <<>> /\ IsDigit(Strip(line)[1])

\* line and re.match(r'[\d\s\-\.]', line) on a stripped line
ACLooksNumeric(line) ==
  line # <<>> /\ (line[1] \in {"-", ".", " "} \/ IsDigit(line[1]))

(***************************************************************************)
(* The input reports                                                       *)
(***************************************************************************)
L_volt_current == <<"v", "o", "l", "t", " ", "c", "u", "r", "r", "e", "n", "t">>

L_current == <<"c", "u", "r", "r", "e", "n", "t">>

L_Time_Voltage == <<"T", "i", "m", "e", " ", "V", "o", "l", "t", "a", "g", "e">>

L_ng_vd == <<"n", "g", " ", "v", "d">>

L_ng_vs == <<"n", "g", " ", "v", "s">>

L_vs == <<"v", "s">>

L_ng_vb == <<"n", "g", " ", "v", "b">>

L_blank == <<>>

L_y == <<"y">>

L_job == <<"*", "*", "*", "*", "*", " ", "j", "o", "b", " ", "c", "o", "n", "c", "l", "u", "d", "e", "d">>

L_row2 == <<"0", ".", "0", " ", "1", "n">>

L_row3 == <<"0", ".", "1", " ", "2", "n", " ", "3", "n">>

L_rowbad == <<"0", ".", "2", " ", "4", "z">>

L_dc_transfer == <<" ", "d", "c", " ", "t", "r", "a", "n", "s", "f", "e", "r", " ", "c", "u", "r", "v", "e", "s">>

L_volt_currents == <<"v", "o", "l", "t", " ", "c", "u", "r", "r", "e", "n", "t", "s">>

L_x == <<"x">>

L_ac_analysis == <<"a", "c", " ", "a", "n", "a", "l", "y", "s", "i", "s", " ", "t", "n", "o", "m", "=", " ", "2", "5", ".", "0">>

L_freq == <<" ", "f", "r", "e", "q", " ", "v", "o", "l", "t", " ", "d", "b", " ", "v", "o", "l", "t", " ", "p", "h", "a", "s", "e">>

L_out == <<"o", "u", "t", "1", " ", "o", "u", "t", "1">>

L_acrow == <<"1", ".", "0", "k", " ", "-", "3", ".", "0", " ", "-", "4", "5", ".", "0">>

K_0 == <<"0", ".", "0">>

K_01 == <<"0", ".", "1">>

K_1 == <<"1", ".", "0">>

K_1e10 == <<"1", ".", "0", "0", "0", "0", "0", "0", "0", "0", "0", "1">>

K_1e13 == <<"1", ".", "0", "0", "0", "0", "0", "0", "0", "0", "0", "0", "0", "0", "1">>

K_02f == <<"0", ".", "2", "f">>

K_06f == <<"0", ".", "6", "f">>

K_nan == <<"-", "n", "a", "n", "n">>

V_1n == <<"1", "n">>

V_2n == <<"2", "n">>

V_3n == <<"3", "n">>

V_4n == <<"4", "n">>

V_5n == <<"5", "n">>

V_7n == <<"7", "n">>

\* the longest report of arbitrary lines
MaxLines == 4

\* the longest report given to the gatesweep, drainsweep and tgate converters
MaxCompatLines == 4

\* the most rows of a subordinate section of a paginated report
MaxSubRows == 2

SeqsUpTo(S, n) == UNION {[1..m -> S] : m \in 0..n}

\* lines of the reports given to the dc and transient converters
ScanVocab ==
  {L_volt_current, L_Time_Voltage, L_ng_vd, L_row2, L_row3, L_rowbad, L_blank, L_y}

\* lines of the reports given to the gatesweep and drainsweep converters
CompatVocab ==
  {L_dc_transfer, L_volt_current, L_volt_currents, L_ng_vd, L_row2, L_row3,
   L_blank, L_x}

\* lines of the reports given to the tgate converter
ACVocab ==
  {L_ac_analysis, L_freq, L_out, L_acrow, L_rowbad, L_blank, L_x}

\* the keys of the rows of a paginated report
KeyTokens == {K_0, K_01, K_1, K_1e10, K_1e13, K_02f, K_06f, K_nan}

\* the key columns of the primary section
PrimaryKeys ==
  {<<K_0>>, <<K_1>>, <<K_0, K_01>>, <<K_0, K_1>>, <<K_01, K_0>>, <<K_0, K_0>>}

PrimaryValues == <<V_1n, V_2n>>

SubValues == <<V_3n, V_4n, V_5n, V_7n>>

\* the lines "key value" of a section
RowLines(keys, values) ==
  [j \in 1..Len(keys) |-> keys[j] \o <<" ">> \o values[j]]

\* the header and sub-header lines of the second section
SubHeads == {<<L_volt_current, L_ng_vs>>, <<L_current, L_vs>>}

\* the sub-header line of the third section (none: no third section)
ThirdSubs == {L_blank, L_ng_vb, L_ng_vd}

\* a report paginated in two or three sections: the primary one, a
\* subordinate one with the given header lines and keys, and possibly a
\* third one with the keys of the primary one
Paginated(pkeys, head, skeys, third) ==
  <<L_volt_current, L_ng_vd>> \o RowLines(pkeys, PrimaryValues)
  \o head \o RowLines(skeys, SubValues)
  \o (IF third # L_blank
      THEN <<L_job, L_volt_current, third>>
           \o RowLines(pkeys, [j \in 1..Len(pkeys) |-> V_7n])
      ELSE <<>>)

PaginatedReports ==
  {Paginated(pkeys, head, skeys, third) :
     pkeys \in PrimaryKeys, head \in SubHeads,
     skeys \in SeqsUpTo(KeyTokens, MaxSubRows) \ {<<>>}, third \in ThirdSubs}

\* lines that may follow the rows of a section
L_concluded == <<"1", " ", "c", "o", "n", "c", "l", "u", "d", "e", "d">>

L_1job == <<"1", " ", "j", "o", "b">>

L_X == <<"X">>

L_dollar == <<"$">>

L_gt == <<">">>

InterruptingLines ==
  {L_blank, L_rowbad, L_y, L_X, L_job, L_dollar, L_gt, L_1job, L_concluded}

\* a section of two rows with a line between them
InterruptedReports ==
  {<<L_volt_current, L_ng_vd, L_row2, t, L_row3>> : t \in InterruptingLines}

\* a header whose time token is not the first one
L_Voltage_Time == <<"V", "o", "l", "t", "a", "g", "e", " ", "T", "i", "m", "e">>

\* a section whose header has the time token last and one name
MisplacedTimeReports == {<<L_Voltage_Time, L_y, L_row2>>}

\* the reports each converter is run on
Reports(c) ==
  IF c \in {"dc", "trans"}
    THEN SeqsUpTo(ScanVocab, MaxLines) \cup PaginatedReports \cup InterruptedReports
         \cup MisplacedTimeReports
  ELSE IF c = "ac" THEN SeqsUpTo(ACVocab, MaxCompatLines)
  ELSE SeqsUpTo(CompatVocab, MaxCompatLines)

\* every line of every report
AllLines ==
  ScanVocab \cup CompatVocab \cup ACVocab \cup InterruptingLines
  \cup {L_Voltage_Time}
  \cup UNION {{f[k] : k \in 1..Len(f)} : f \in PaginatedReports}

(***************************************************************************)
(* The tests and conversions of one line, tabulated over the lines of the  *)
(* reports                                                                 *)
(***************************************************************************)
LineFacts[l \in AllLines] ==
  [ parts         |-> Split(l),
    blank         |-> Strip(l) = <<>>,
    header        |-> [c \in {"dc", "trans"} |-> IsHeaderLine(c, l)],
    end_marker    |-> Strip(l) # <<>> /\ IsEndMarker(Strip(l)),
    row           |-> DecodeRow(Split(Strip(l))),
    compat_header |-> IsCompatHeader(l),
    dc_marker     |-> IsDcMarker(l),
    numeric       |-> LooksNumeric(Strip(l)),
    gate_kind     |-> GateRowKind(Strip(l)),
    drain_kind    |-> DrainRowKind(Strip(l)),
    ac_kind       |-> ACRowKind(Strip(l)),
    compat_row    |-> DecodeRowCompat(Split(Strip(l))),
    ac_marker     |-> IsACMarker(l),
    freq          |-> IsFreqLine(l),
    ac_counts     |-> ACCounts(l),
    ac_digit      |-> SpacesThenDigit(l),
    ac_numeric    |-> ACLooksNumeric(Strip(l)) ]

(***************************************************************************)
(* hspice_dc_to_csv.py / hspice_trans_to_csv.py: the merge of the sections *)
(***************************************************************************)
\* the exponent of the tolerance of the closest-match scan: 1e-12, 1e-15
TolExpDC == -12

TolExpTrans == -15

TolExp(c) == IF c = "trans" THEN TolExpTrans ELSE TolExpDC

\* == of two floats: a NaN equals nothing, itself included
FloatEq(a, b) == a = b /\ ~IsNaN(a)

\* section_lookup[key] = vals on a dict kept as a sequence of (key, values)
\* pairs in insertion order
LookupPut(lookup, key, vals) ==
  IF \E k \in 1..Len(lookup) : FloatEq(lookup[k][1], key)
  THEN [k \in 1..Len(lookup) |->
         IF FloatEq(lookup[k][1], key) THEN <<lookup[k][1], vals>> ELSE lookup[k]]
  ELSE Append(lookup, <<key, vals>>)

\* a variant of SectionLookup that keeps the whole row, key included
RECURSIVE SectionLookup_whole(_)
SectionLookup_whole(data) ==
  IF data = <<>> THEN <<>>
  ELSE LookupPut(SectionLookup_whole(SubSeq(data, 1, Len(data) - 1)),
                 data[Len(data)][1], data[Len(data)])

\* section_lookup of a section: row[0] -> row[1:], later rows overwriting
RECURSIVE SectionLookup(_)
SectionLookup(data) ==
  IF data = <<>> THEN <<>>
  ELSE LET row == data[Len(data)]
       IN LookupPut(SectionLookup(SubSeq(data, 1, Len(data) - 1)),
                    row[1], Tail(row))

\* [float('nan')] * n
NaNs(n) == [k \in 1..n |-> NaN]

\* a variant of MatchValues that appends nothing for a key without counterpart
MatchValues_drops(c, lookup, sweep_val, ncols) ==
  IF \E k \in 1..Len(lookup) : FloatEq(lookup[k][1], sweep_val)
  THEN lookup[Least({k \in 1..Len(lookup) : FloatEq(lookup[k][1], sweep_val)})][2]
  ELSE IF \E k \in 1..Len(lookup) : AbsDiffLess(lookup[k][1], sweep_val, TolExp(c))
  THEN lookup[Least({k \in 1..Len(lookup) :
                       AbsDiffLess(lookup[k][1], sweep_val, TolExp(c))})][2]
  ELSE <<>>

\* a variant of MatchValues without the scan for a key within the tolerance
MatchValues_exact(c, lookup, sweep_val, ncols) ==
  IF \E k \in 1..Len(lookup) : FloatEq(lookup[k][1], sweep_val)
  THEN lookup[Least({k \in 1..Len(lookup) : FloatEq(lookup[k][1], sweep_val)})][2]
  ELSE NaNs(ncols - 1)

\* a variant of MatchValues that falls back on the first row of the section
MatchValues_first(c, lookup, sweep_val, ncols) ==
  IF \E k \in 1..Len(lookup) : FloatEq(lookup[k][1], sweep_val)
  THEN lookup[Least({k \in 1..Len(lookup) : FloatEq(lookup[k][1], sweep_val)})][2]
  ELSE IF \E k \in 1..Len(lookup) : AbsDiffLess(lookup[k][1], sweep_val, TolExp(c))
  THEN lookup[Least({k \in 1..Len(lookup) :
                       AbsDiffLess(lookup[k][1], sweep_val, TolExp(c))})][2]
  ELSE IF lookup # <<>> THEN lookup[1][2]
  ELSE NaNs(ncols - 1)

\* what is appended to the primary row with key sweep_val: the values of
\* the exact key, else of the first key within the tolerance, else NaNs
MatchValues(c, lookup, sweep_val, ncols) ==
  LET exact == {k \in 1..Len(lookup) : FloatEq(lookup[k][1], sweep_val)}
      close == {k \in 1..Len(lookup) :
                  AbsDiffLess(lookup[k][1], sweep_val, TolExp(c))}
  IN IF exact # {} THEN lookup[Least(exact)][2]
     ELSE IF close # {} THEN lookup[Least(close)][2]
     ELSE NaNs(ncols - 1)

\* sweep_values = [row[0] for row in primary['data']]
SweepValues(primary) == [j \in 1..Len(primary.data) |-> primary.data[j][1]]

\* a variant of MergeInto that puts the values of the section in front
MergeInto_prepends(c, merged, sweep_values, section) ==
  LET lookup == SectionLookup(section.data)
  IN [j \in 1..Len(sweep_values) |->
       MatchValues(c, lookup, sweep_values[j], Len(section.columns)) \o merged[j]]

\* one pass of "for section in sections[1:]" over the merged rows
MergeInto(c, merged, sweep_values, section) ==
  LET lookup == SectionLookup(section.data)
  IN [j \in 1..Len(sweep_values) |->
       merged[j] \o MatchValues(c, lookup, sweep_values[j], Len(section.columns))]

\* the final renaming of the dc converter
CleanColumns(c, cols) ==
  IF c = "dc" /\ cols[1] = W_sweep /\ Len(cols) > 1
  THEN <<VName(W_sweep)>> \o Tail(cols)
  ELSE cols

\* f.readlines(): one entry per line
ReadLines(f) == f

\* f.read().split('\n') of a file whose last line ends with a newline
ReadSplit(f) == f \o << <<>> >>

Raise(exc) == [k |-> "raise", exc |-> exc]

Return(cols, data) == [k |-> "ok", columns |-> cols, data |-> data]

\* Python's None for a line index
NoIndex == -1

\* the facts of the lines of a file: facts[k + 1] tells about lines[k]
Facts(lines) == [k \in 1..Len(lines) |-> LineFacts[lines[k]]]

\* whether the line after the header line is a sub-header
HasSubheader(facts, header_line_idx) ==
  /\ header_line_idx + 1 < Len(facts)
  /\ ~facts[header_line_idx + 2].blank
  /\ ~facts[header_line_idx + 2].numeric

\* the first line index from a on that looks numeric, or a when there is none
FirstDataLine(facts, a) ==
  LET S == {k \in a..(Len(facts) - 1) : facts[k + 1].numeric}
  IN IF S = {} THEN a ELSE Least(S)

(***************************************************************************)
(* hspicecompat/gatesweep/hspice_dc_to_csv.py: parse_hspice_dc_output      *)
(***************************************************************************)
GateDefaultColumns ==
  << <<"v", "(", "n", "g", ")">>,
     <<"i", "(", "V", "d", "_", "s", "a", "t", ")">>,
     <<"i", "(", "V", "d", "_", "l", "i", "n", ")">>,
     <<"i", "(", "V", "p", "_", "s", "a", "t", ")">>,
     <<"i", "(", "V", "p", "_", "l", "i", "n", ")">> >>

\* how many lines from dc_start on are searched for the header
GateHeaderWindow == 30

\* dc_start: the first line with a dc marker, else two lines before the
\* first typed header, else None
GateDcStart(facts) ==
  LET marked == {k \in 0..(Len(facts) - 1) : facts[k + 1].dc_marker}
      typed == {k \in 0..(Len(facts) - 1) : facts[k + 1].compat_header}
  IN IF marked # {} THEN Least(marked)
     ELSE IF typed # {} THEN Max(0, Least(typed) - 2)
     ELSE NoIndex

\* header_line_idx: the first typed header in the window, else None
GateHeaderLine(facts, dc_start) ==
  LET found == {k \in dc_start..(Min(dc_start + GateHeaderWindow, Len(facts)) - 1) :
                  facts[k + 1].compat_header}
  IN IF found = {} THEN NoIndex ELSE Least(found)

\* the columns built from the header and sub-header tokens
GateColumns(header_parts, subheader_parts) ==
  [j \in 1..Len(header_parts) |->
    IF j - 1 < Len(subheader_parts)
    THEN IF Lower(header_parts[j]) = W_volt THEN VName(subheader_parts[j])
         ELSE IF Lower(header_parts[j]) = W_current THEN IName(subheader_parts[j])
         ELSE header_parts[j] \o <<"(">> \o subheader_parts[j] \o <<")">>
    ELSE W_col \o IntToStr(j - 1)]

\* the data-row loop from line index a (counted from 0)
RECURSIVE GateRows(_, _)
GateRows(facts, a) ==
  IF a >= Len(facts) THEN <<>>
  ELSE IF facts[a + 1].gate_kind = "stop" THEN <<>>
  ELSE IF facts[a + 1].gate_kind = "row" /\ RowAccepted(facts[a + 1].compat_row)
    THEN <<facts[a + 1].compat_row>> \o GateRows(facts, a + 1)
  ELSE GateRows(facts, a + 1)

\* columns cut or padded to the width of the first data row
GateAdjust(cols, data) ==
  IF data # <<>> /\ Len(data[1]) # Len(cols)
  THEN [j \in 1..Len(data[1]) |->
         IF j <= Len(GateDefaultColumns) THEN GateDefaultColumns[j]
         ELSE W_col \o IntToStr(j - 1)]
  ELSE cols

\* the return value from the columns and the rows
GateFinish(cols, data) == Return(GateAdjust(cols, data), data)

\* the parse once the header line is known
GateFromHeader(facts, header_line_idx, has_sub) ==
  GateFinish(IF has_sub
             THEN GateColumns(facts[header_line_idx + 1].parts,
                              facts[header_line_idx + 2].parts)
             ELSE GateDefaultColumns,
             GateRows(facts, FirstDataLine(facts, IF has_sub THEN header_line_idx + 2
                                                  ELSE header_line_idx + 1)))

\* the parse once dc_start is known
GateFromStart(facts, header_line_idx) ==
  IF header_line_idx = NoIndex THEN Raise("ValueError")
  ELSE GateFromHeader(facts, header_line_idx, HasSubheader(facts, header_line_idx))

GateParse(facts, dc_start) ==
  IF dc_start = NoIndex THEN Raise("ValueError")
  ELSE GateFromStart(facts, GateHeaderLine(facts, dc_start))

parse_gatesweep(f) == GateParse(Facts(ReadSplit(f)), GateDcStart(Facts(ReadSplit(f))))

(***************************************************************************)
(* hspicecompat/drainsweep/pfet/hspice_dc_to_csv.py: parse_hspice_dc_output *)
(***************************************************************************)
DrainDefaultColumns ==
  << <<"v", "(", "n", "d", ")">>,
     <<"i", "(", "V", "a", "m", "_", "1", ")">>,
     <<"i", "(", "V", "a", "m", "_", "2", ")">>,
     <<"i", "(", "V", "a", "m", "_", "3", ")">>,
     <<"i", "(", "V", "a", "m", "_", "4", ")">>,
     <<"i", "(", "V", "a", "m", "_", "5", ")">> >>

\* header_line_idx: the first typed header of the file, else None
DrainHeaderLine(facts) ==
  LET found == {k \in 0..(Len(facts) - 1) : facts[k + 1].compat_header}
  IN IF found = {} THEN NoIndex ELSE Least(found)

DrainColumns(header_parts, subheader_parts) ==
  [j \in 1..Len(header_parts) |->
    IF Lower(header_parts[j]) = W_volt
    THEN VName(IF j - 1 < Len(subheader_parts) THEN subheader_parts[j]
               ELSE W_col \o IntToStr(j - 1))
    ELSE IName(IF j - 1 < Len(subheader_parts) THEN subheader_parts[j]
               ELSE W_col \o IntToStr(j - 1))]

RECURSIVE DrainRows(_, _)
DrainRows(facts, a) ==
  IF a >= Len(facts) THEN <<>>
  ELSE IF facts[a + 1].drain_kind = "stop" THEN <<>>
  ELSE IF facts[a + 1].drain_kind = "row" /\ RowAccepted(facts[a + 1].compat_row)
    THEN <<facts[a + 1].compat_row>> \o DrainRows(facts, a + 1)
  ELSE DrainRows(facts, a + 1)

DrainAdjust(cols, data) ==
  IF data # <<>> /\ Len(data[1]) # Len(cols)
  THEN [j \in 1..Len(data[1]) |->
         IF j = 1 THEN DrainDefaultColumns[1]
         ELSE IName(W_Vam \o IntToStr(j - 1))]
  ELSE cols

DrainFinish(cols, data) == Return(DrainAdjust(cols, data), data)

DrainFromHeader(facts, header_line_idx, has_sub) ==
  DrainFinish(IF has_sub
              THEN DrainColumns(facts[header_line_idx + 1].parts,
                                facts[header_line_idx + 2].parts)
              ELSE DrainDefaultColumns,
              DrainRows(facts, FirstDataLine(facts, IF has_sub THEN header_line_idx + 2
                                                    ELSE header_line_idx + 1)))

\* a variant of DrainParse that returns the default columns and no rows
\* when the file has no header line
DrainParse_defaults(facts, header_line_idx) ==
  IF header_line_idx = NoIndex THEN Return(DrainDefaultColumns, <<>>)
  ELSE DrainFromHeader(facts, header_line_idx, HasSubheader(facts, header_line_idx))

DrainParse(facts, header_line_idx) ==
  IF header_line_idx = NoIndex THEN Raise("ValueError")
  ELSE DrainFromHeader(facts, header_line_idx, HasSubheader(facts, header_line_idx))

parse_drainsweep(f) == DrainParse(Facts(ReadSplit(f)), DrainHeaderLine(Facts(ReadSplit(f))))

(***************************************************************************)
(* hspicecompat/tgate/hspice_to_csv.py: parse_hspice_output                *)
(***************************************************************************)
ACDefaultColumns ==
  << W_freq,
     <<"v", "d", "b", "_", "o", "u", "t", "1">>,
     <<"v", "d", "b", "_", "o", "u", "t", "2">>,
     <<"v", "p", "_", "o", "u", "t", "1">>,
     <<"v", "p", "_", "o", "u", "t", "2">> >>

\* how many lines from ac_start on are searched for the header
ACHeaderWindow == 20

\* how many lines after the header are looked at for the sub-header
ACLookahead == 4

\* ac_start: the first line with the analysis marker, else None
ACStart(facts) ==
  LET marked == {k \in 0..(Len(facts) - 1) : facts[k + 1].ac_marker}
  IN IF marked = {} THEN NoIndex ELSE Least(marked)

\* header_line: the first line with freq in the window, else None
ACHeaderLine(facts, ac_start) ==
  LET found == {k \in ac_start..(Min(ac_start + ACHeaderWindow, Len(facts)) - 1) :
                  facts[k + 1].freq}
  IN IF found = {} THEN NoIndex ELSE Least(found)

\* "for j in range(i + 1, i + 5)" from j on: the data start and the
\* sub-header line found, or an IndexError on lines[j]
RECURSIVE ACLook(_, _, _, _)
ACLook(facts, j, last, sub) ==
  IF j > last THEN [k |-> "ok", data_start |-> NoIndex, subheader_line |-> sub]
  ELSE IF j >= Len(facts) THEN Raise("IndexError")
  ELSE IF facts[j + 1].ac_counts
    THEN IF facts[j + 1].ac_digit
         THEN [k |-> "ok", data_start |-> j, subheader_line |-> sub]
         ELSE ACLook(facts, j + 1, last, j)
  ELSE ACLook(facts, j + 1, last, sub)

\* the name of a column from its type word and its node
ACColumnName(col_type, node) ==
  IF col_type = W_db THEN <<"v", "d", "b", "_">> \o node
  ELSE IF col_type = W_phase THEN <<"v", "p", "_">> \o node
  ELSE col_type \o <<"_">> \o node

\* the column names from header_parts[a:] (a counted from 0)
RECURSIVE ACColumns(_, _, _, _)
ACColumns(header_parts, subheader_parts, a, sub_idx) ==
  IF a >= Len(header_parts) THEN <<>>
  ELSE IF header_parts[a + 1] = W_volt /\ a + 1 < Len(header_parts)
    THEN IF sub_idx < Len(subheader_parts)
         THEN <<ACColumnName(header_parts[a + 2], subheader_parts[sub_idx + 1])>>
              \o ACColumns(header_parts, subheader_parts, a + 2, sub_idx + 1)
         ELSE ACColumns(header_parts, subheader_parts, a + 2, sub_idx)
  ELSE ACColumns(header_parts, subheader_parts, a + 1, sub_idx)

RECURSIVE ACRows(_, _)
ACRows(facts, a) ==
  IF a >= Len(facts) THEN <<>>
  ELSE IF facts[a + 1].ac_kind = "stop" THEN <<>>
  ELSE IF facts[a + 1].ac_kind = "row" /\ RowAccepted(facts[a + 1].compat_row)
    THEN <<facts[a + 1].compat_row>> \o ACRows(facts, a + 1)
  ELSE ACRows(facts, a + 1)

\* the search for the first data line from "from" on; data_start keeps its
\* value when no line looks numeric
ACDataStart(facts, data_start, from) ==
  LET numeric == {k \in from..(Len(facts) - 1) : facts[k + 1].ac_numeric}
  IN IF numeric # {} THEN Least(numeric) ELSE data_start

\* the data rows, or the TypeError of range(None, ...)
ACFinish(facts, cols, data_start) ==
  IF data_start = NoIndex THEN Raise("TypeError")
  ELSE Return(cols, ACRows(facts, data_start))

ACFromHeader(facts, header_line, look) ==
  IF look.k = "raise" THEN look
  ELSE IF look.subheader_line # NoIndex
    THEN ACFinish(facts,
                  <<W_freq>> \o ACColumns(facts[header_line + 1].parts,
                                          facts[look.subheader_line + 1].parts, 1, 0),
                  ACDataStart(facts, look.subheader_line + 1, look.subheader_line + 1))
  ELSE ACFinish(facts, ACDefaultColumns,
                ACDataStart(facts, look.data_start,
                            IF look.data_start # NoIndex THEN look.data_start
                            ELSE header_line + 1))

ACFromStart(facts, header_line) ==
  IF header_line = NoIndex THEN Raise("ValueError")
  ELSE ACFromHeader(facts, header_line,
                    ACLook(facts, header_line + 1, header_line + ACLookahead, NoIndex))

ACParse(facts, ac_start) ==
  IF ac_start = NoIndex THEN Raise("ValueError")
  ELSE ACFromStart(facts, ACHeaderLine(facts, ac_start))

parse_ac(f) == ACParse(Facts(ReadLines(f)), ACStart(Facts(ReadLines(f))))

(***************************************************************************)
(* One run of a converter: main() of the script conv on a report file      *)
(***************************************************************************)
VARIABLES conv, has_arg, file, pc, i, columns, data_rows, sections,
          all_columns, merged_data, sec, ret, exit_code, stderr, out_file,
          token, result, loaded, fixes_made

vars == <<conv, has_arg, file, pc, i, columns, data_rows, sections,
          all_columns, merged_data, sec, ret, exit_code, stderr, out_file,
          token, result, loaded, fixes_made>>

Converters == {"dc", "trans", "gate", "drain", "ac"}

\* the output file before it is written, and the parser before it returns
NoFile == [k |-> "absent"]

NoRet == [k |-> "none"]

\* no decoder call has returned
NoValue == [k |-> "unset"]

\* load_csv has not returned
NotLoaded == [k |-> "unset"]

\* the locals of the scanner and of the merge
\* the command's inputs, the token and result of a single decoder call,
\* the table a plotting script loads and the count of a model-file fix
input_vars == <<conv, has_arg, file, token, result, loaded, fixes_made>>

scan_vars == <<i, columns, data_rows, sections>>

merge_vars == <<all_columns, merged_data, sec>>

\* len(sys.argv) < 2: the usage line, exit status 1
MainUsage ==
  /\ pc = "main" /\ ~has_arg
  /\ stderr' = Append(stderr, "usage")
  /\ exit_code' = 1
  /\ pc' = "exit"
  /\ UNCHANGED <<input_vars, scan_vars, merge_vars, ret, out_file>>

\* main() of the dcnfet and transnfet converters up to the open of the file
MainParse ==
  /\ pc = "main" /\ has_arg /\ conv \in {"dc", "trans"}
  /\ stderr' = Append(stderr, "parsing")
  /\ i' = 0 /\ sections' = <<>>
  /\ pc' = "scan"
  /\ UNCHANGED <<input_vars, columns, data_rows, merge_vars, ret,
                 exit_code, out_file>>

\* "while i < len(lines)" on a header line: the sub-header line is consumed
\* and the columns of the section are built; a header on the last line
\* ends the scan
ScanHeader ==
  /\ pc = "scan" /\ i < Len(file)
  /\ LineFacts[file[i + 1]].header[conv]
  /\ IF i + 1 >= Len(file)
     THEN /\ i' = i + 1
          /\ pc' = "scanned"
          /\ UNCHANGED <<columns, data_rows>>
     ELSE /\ columns' = BuildColumns(conv, LineFacts[file[i + 1]].parts,
                                     LineFacts[file[i + 2]].parts)
          /\ data_rows' = <<>>
          /\ i' = i + 2
          /\ pc' = "rows"
  /\ UNCHANGED <<input_vars, sections, merge_vars, ret, exit_code,
                 stderr, out_file>>

\* a variant of ScanSkip that stays on the line
ScanSkip_stays ==
  /\ pc = "scan" /\ i < Len(file)
  /\ ~LineFacts[file[i + 1]].header[conv]
  /\ i' = i
  /\ UNCHANGED <<input_vars, pc, columns, data_rows, sections,
                 merge_vars, ret, exit_code, stderr, out_file>>

\* a line that is not a header: i += 1
ScanSkip ==
  /\ pc = "scan" /\ i < Len(file)
  /\ ~LineFacts[file[i + 1]].header[conv]
  /\ i' = i + 1
  /\ UNCHANGED <<input_vars, pc, columns, data_rows, sections,
                 merge_vars, ret, exit_code, stderr, out_file>>

\* the end of the outer loop
ScanEnd ==
  /\ pc = "scan" /\ i >= Len(file)
  /\ pc' = "scanned"
  /\ UNCHANGED <<input_vars, scan_vars, merge_vars, ret, exit_code,
                 stderr, out_file>>

\* a variant of CloseSection that keeps a section without rows
CloseSection_keeps_empty ==
  /\ sections' = Append(sections, [columns |-> columns, data |-> data_rows])
  /\ pc' = "scan"

\* "if data_rows: sections.append(...)" and back to the outer loop
CloseSection ==
  /\ sections' = IF data_rows # <<>>
                 THEN Append(sections, [columns |-> columns, data |-> data_rows])
                 ELSE sections
  /\ pc' = "scan"

\* a blank line among the rows is passed over
RowBlank ==
  /\ pc = "rows" /\ i < Len(file)
  /\ LineFacts[file[i + 1]].blank
  /\ i' = i + 1
  /\ UNCHANGED <<input_vars, pc, columns, data_rows, sections,
                 merge_vars, ret, exit_code, stderr, out_file>>

\* a variant of RowBreak that passes the line that ends the rows
RowBreak_consumes ==
  /\ pc = "rows" /\ i < Len(file)
  /\ LineFacts[file[i + 1]].end_marker
  /\ CloseSection
  /\ i' = i + 1
  /\ UNCHANGED <<input_vars, columns, data_rows, merge_vars, ret,
                 exit_code, stderr, out_file>>

\* an end marker or a line that does not start like a number ends the rows
\* of the section; the line is left for the outer loop
RowBreak ==
  /\ pc = "rows" /\ i < Len(file)
  /\ LineFacts[file[i + 1]].end_marker
  /\ CloseSection
  /\ UNCHANGED <<input_vars, i, columns, data_rows, merge_vars, ret,
                 exit_code, stderr, out_file>>

\* a variant of RowData in which a row that fails to decode ends the section
RowData_stops ==
  /\ pc = "rows" /\ i < Len(file)
  /\ ~LineFacts[file[i + 1]].blank
  /\ ~LineFacts[file[i + 1]].end_marker
  /\ IF RowAccepted(LineFacts[file[i + 1]].row)
     THEN /\ data_rows' = Append(data_rows, LineFacts[file[i + 1]].row)
          /\ UNCHANGED <<pc, sections>>
     ELSE /\ CloseSection
          /\ UNCHANGED data_rows
  /\ i' = i + 1
  /\ UNCHANGED <<input_vars, columns, merge_vars, ret, exit_code, stderr,
                 out_file>>

\* a data line: the row is appended unless a token fails to decode
RowData ==
  /\ pc = "rows" /\ i < Len(file)
  /\ ~LineFacts[file[i + 1]].blank
  /\ ~LineFacts[file[i + 1]].end_marker
  /\ data_rows' = IF RowAccepted(LineFacts[file[i + 1]].row)
                  THEN Append(data_rows, LineFacts[file[i + 1]].row)
                  ELSE data_rows
  /\ i' = i + 1
  /\ UNCHANGED <<input_vars, pc, columns, sections, merge_vars, ret,
                 exit_code, stderr, out_file>>

\* the rows run to the end of the file
RowsEnd ==
  /\ pc = "rows" /\ i >= Len(file)
  /\ CloseSection
  /\ UNCHANGED <<input_vars, i, columns, data_rows, merge_vars, ret,
                 exit_code, stderr, out_file>>

\* "if not sections: raise ValueError", else the primary section opens the
\* merge
CheckSections ==
  /\ pc = "scanned"
  /\ IF sections = <<>>
     THEN /\ ret' = Raise("ValueError")
          /\ pc' = "raised"
          /\ UNCHANGED merge_vars
     ELSE /\ all_columns' = sections[1].columns
          /\ merged_data' = sections[1].data
          /\ sec' = 2
          /\ pc' = "merge"
          /\ UNCHANGED ret
  /\ UNCHANGED <<input_vars, scan_vars, exit_code, stderr, out_file>>

\* one turn of "for section in sections[1:]"
MergeSection ==
  /\ pc = "merge" /\ sec <= Len(sections)
  /\ all_columns' = all_columns \o Tail(sections[sec].columns)
  /\ merged_data' = MergeInto(conv, merged_data, SweepValues(sections[1]),
                              sections[sec])
  /\ sec' = sec + 1
  /\ UNCHANGED <<input_vars, pc, scan_vars, ret, exit_code, stderr,
                 out_file>>

\* the clean-up of the column names and the return
MergeReturn ==
  /\ pc = "merge" /\ sec > Len(sections)
  /\ ret' = Return(CleanColumns(conv, all_columns), merged_data)
  /\ pc' = "returned"
  /\ UNCHANGED <<input_vars, scan_vars, merge_vars, exit_code,
                 stderr, out_file>>

\* main() of the compat converters up to the return of the parser
MainParseCompat ==
  /\ pc = "main" /\ has_arg /\ conv \in {"gate", "drain", "ac"}
  /\ stderr' = Append(stderr, "parsing")
  /\ ret' = CASE conv = "gate" -> parse_gatesweep(file)
              [] conv = "drain" -> parse_drainsweep(file)
              [] conv = "ac" -> parse_ac(file)
  /\ pc' = IF ret'.k = "raise" THEN "raised" ELSE "returned"
  /\ UNCHANGED <<input_vars, scan_vars, merge_vars, exit_code,
                 out_file>>

\* the table a converter writes: the header line and one line per row
write_csv(cols, data) == [k |-> "table", columns |-> cols, data |-> data]

\* only the dcnfet and transnfet scripts test len(data) == 0
ChecksEmpty(c) == c \in {"dc", "trans"}

\* the rest of main() after the parser returned
MainWrite ==
  /\ pc = "returned"
  /\ IF ChecksEmpty(conv) /\ Len(ret.data) = 0
     THEN /\ stderr' = stderr \o <<"found", "columns", "warning">>
          /\ exit_code' = 1
          /\ UNCHANGED out_file
     ELSE /\ stderr' = stderr \o <<"found", "columns", "wrote">>
          /\ out_file' = write_csv(ret.columns, ret.data)
          /\ exit_code' = 0
  /\ pc' = "exit"
  /\ UNCHANGED <<input_vars, scan_vars, merge_vars, ret>>

\* an exception of the parser is not caught: traceback, exit status 1
MainUncaught ==
  /\ pc = "raised"
  /\ stderr' = Append(stderr, "traceback")
  /\ exit_code' = 1
  /\ pc' = "exit"
  /\ UNCHANGED <<input_vars, scan_vars, merge_vars, ret, out_file>>

Init ==
  /\ conv \in Converters
  /\ has_arg \in BOOLEAN
  /\ file \in (IF has_arg THEN Reports(conv) ELSE {<<>>})
  /\ pc = "main"
  /\ i = 0
  /\ columns = <<>> /\ data_rows = <<>> /\ sections = <<>>
  /\ all_columns = <<>> /\ merged_data = <<>> /\ sec = 0
  /\ ret = NoRet
  /\ exit_code = -1
  /\ stderr = <<>>
  /\ out_file = NoFile
  /\ token = <<>>
  /\ result = NoValue
  /\ loaded = NotLoaded
  /\ fixes_made = 0

Next ==
  \/ MainUsage
  \/ MainParse
  \/ ScanHeader
  \/ ScanSkip
  \/ ScanEnd
  \/ RowBlank
  \/ RowBreak
  \/ RowData
  \/ RowsEnd
  \/ CheckSections
  \/ MergeSection
  \/ MergeReturn
  \/ MainParseCompat
  \/ MainWrite
  \/ MainUncaught

Spec == Init /\ [][Next]_vars


(***************************************************************************)
(* One call of a converter's parse_hspice_value on a token                 *)
(***************************************************************************)
\* decimal mantissas: integer digits and fraction digits
Mantissas ==
  { [ip |-> <<"1">>, fp |-> <<>>],
    [ip |-> <<"1", "3", "7">>, fp |-> <<"2", "1", "9", "7">>],
    [ip |-> <<"1">>, fp |-> <<"0", "0", "0", "0", "0">>],
    [ip |-> <<>>, fp |-> <<"5">>],
    [ip |-> <<"0">>, fp |-> <<>>],
    [ip |-> <<"1", "2">>, fp |-> <<"5", "0">>] }

NoSuffix == ""

\* [-] mantissa [suffix]
Numerals == [neg : BOOLEAN, m : Mantissas, suf : SuffixChars \cup {NoSuffix}]

\* the text of a numeral
TokenOf(g) ==
  (IF g.neg THEN <<"-">> ELSE <<>>)
  \o g.m.ip
  \o (IF g.m.fp = <<>> THEN <<>> ELSE <<".">> \o g.m.fp)
  \o (IF g.suf = NoSuffix THEN <<>> ELSE <<g.suf>>)

\* other tokens: signs and suffixes alone, words, exponents, whitespace
OtherTokens ==
  { <<>>, <<" ", " ">>, <<"-">>, <<"+">>, <<"n">>, <<"-", "n">>, <<".">>,
    <<"-", ".">>, <<"a", "b", "c">>, <<"4", "z">>,
    <<"i", "n", "f">>, <<"-", "i", "n", "f">>, <<"n", "a", "n">>,
    <<"i", "n", "f", "f">>, <<"n", "a", "n", "n">>, <<"-", "n", "a", "n", "n">>,
    <<"i", "n", "f", "i", "n", "i", "t", "y">>,
    <<"-", "I", "n", "f", "i", "n", "i", "t", "y">>,
    <<"1", "e", "9", "9", "9">>, <<"-", "1", "e", "9", "9", "9">>,
    <<"1", "e", "3", "0", "8", "k">>, <<"1", "e", "-", "4", "0", "0">>,
    <<"1", "e", "5">>, <<"1", "E", "-", "3", "N">>, <<"1", "K">>,
    <<" ", "1", "n", " ">>, <<"+", "1", "n">>, <<"-", "-", "1">>,
    <<"-", "+", "1">>, <<"1", ".", ".", "2">>, <<"1", "n", "n">>,
    <<"1", "_", "0">>, <<"1", "e">>, <<"0", "n">>, <<"-", "0">> }

Tokens == {TokenOf(g) : g \in Numerals} \cup OtherTokens

\* the decoder of each converter
Decoder(c, tok) ==
  IF c \in {"dc", "trans"} THEN parse_hspice_value(tok)
  ELSE parse_hspice_value_compat(tok)

\* result = parse_hspice_value(token)
DecodeToken ==
  /\ pc = "token"
  /\ result' = Decoder(conv, token)
  /\ pc' = "decoded"
  /\ UNCHANGED <<conv, has_arg, file, token, loaded, scan_vars, merge_vars,
                 ret, exit_code, stderr, out_file, fixes_made>>

DecodeInit ==
  /\ conv \in Converters
  /\ token \in Tokens
  /\ result = NoValue
  /\ loaded = NotLoaded
  /\ fixes_made = 0
  /\ pc = "token"
  /\ has_arg = FALSE
  /\ file = <<>>
  /\ i = 0
  /\ columns = <<>> /\ data_rows = <<>> /\ sections = <<>>
  /\ all_columns = <<>> /\ merged_data = <<>> /\ sec = 0
  /\ ret = NoRet
  /\ exit_code = -1
  /\ stderr = <<>>
  /\ out_file = NoFile

DecodeNext == DecodeToken

DecodeSpec == DecodeInit /\ [][DecodeNext]_vars
(***************************************************************************)
(* Properties of the converters                                            *)
(***************************************************************************)
\* the run is one of the multi-section extractors
MultiSection == conv \in {"dc", "trans"}

\* the parse function has returned a table
Returned == ret.k = "ok"

\* the parse function was called and is over
Parsed == has_arg /\ pc \in {"returned", "raised", "exit"}

Zero == [k |-> "num", neg |-> FALSE, dig |-> <<>>, exp |-> 0]

\* d * 10^e for one digit d
Dec(d, e) == [k |-> "num", neg |-> FALSE, dig |-> <<d>>, exp |-> e]

\* C1: every row of the table returned by a multi-section extractor has
\* exactly as many values as the returned column list has names
C1_RowsAsWideAsColumns ==
  (MultiSection /\ Returned) =>
    \A j \in 1..Len(ret.data) : Len(ret.data[j]) = Len(ret.columns)

\* the two-section report of the example: volt current / ng vd with rows
\* (0.0, 1n), (0.1, 2n), then current / vs with rows (0.0, 3n), (0.1, 4n)
C2_Report == Paginated(<<K_0, K_01>>, <<L_current, L_vs>>, <<K_0, K_01>>, L_blank)

\* C2: on the example report the dc extractor returns the three columns
\* v(ng) or sweep, i(vd), i(vs) and the rows (0.0, 1e-9, 3e-9),
\* (0.1, 2e-9, 4e-9)
C2_ExampleTable ==
  (conv = "dc" /\ file = C2_Report /\ Returned) =>
    /\ Len(ret.columns) = 3
    /\ ret.columns[1] \in {VName(<<"n", "g">>), W_sweep}
    /\ ret.columns[2] = IName(<<"v", "d">>)
    /\ ret.columns[3] = IName(<<"v", "s">>)
    /\ ret.data = << <<Zero, Dec(1, -9), Dec(3, -9)>>,
                     <<Dec(1, -1), Dec(2, -9), Dec(4, -9)>> >>

\* no row of the section has a key equal to key or within the tolerance
NoCounterpart(key, section) ==
  \A r \in 1..Len(section.data) :
    /\ ~FloatEq(section.data[r][1], key)
    /\ ~AbsDiffLess(section.data[r][1], key, TolExp(conv))

\* C3: merging a subordinate section keeps one merged row per primary row,
\* and the row of a primary key without counterpart in the section grows by
\* one not-a-number per non-index column of the section; the returned table
\* has as many rows as the primary section
C3_UnmatchedKeyGetsNaN ==
  [][/\ MergeSection =>
          /\ Len(merged_data') = Len(sections[1].data)
          /\ \A j \in 1..Len(sections[1].data) :
               NoCounterpart(sections[1].data[j][1], sections[sec]) =>
                 /\ Len(merged_data'[j]) =
                      Len(merged_data[j]) + Len(sections[sec].columns) - 1
                 /\ SubSeq(merged_data'[j], 1, Len(merged_data[j])) = merged_data[j]
                 /\ \A k \in (Len(merged_data[j]) + 1)..Len(merged_data'[j]) :
                      IsNaN(merged_data'[j][k])
     /\ MergeReturn => Len(ret'.data) = Len(sections[1].data)]_vars

\* a primary key without counterpart in the second section has been given a
\* not-a-number
C3_Witness ==
  /\ pc = "merge" /\ sec = 3
  /\ Len(sections[2].columns) = 2
  /\ \E j \in 1..Len(sections[1].data) :
       /\ NoCounterpart(sections[1].data[j][1], sections[2])
       /\ Len(merged_data[j]) = Len(sections[1].data[j]) + 1
       /\ IsNaN(merged_data[j][Len(merged_data[j])])

\* the report of the example: primary key 1.0, second section key 1.0000000001
C4_Report == Paginated(<<K_1>>, <<L_volt_current, L_ng_vs>>, <<K_1e10>>, L_blank)

\* C4 as stated: the key 1.0000000001 of the second section is matched to
\* the primary key 1.0 by the dc merge, so the merged row ends with the value
\* of the second section and has no not-a-number
C4_SpecExampleMatches ==
  (conv = "dc" /\ file = C4_Report /\ Returned) =>
    ret.data = << <<Dec(1, 0), Dec(1, -9), Dec(3, -9)>> >>

\* the rows of the section whose key is less than 1e-12 away from key
WithinTolerance(key, section) ==
  {r \in 1..Len(section.data) : AbsDiffLess(section.data[r][1], key, TolExpDC)}

\* C4 amended: in the dc merge a primary key that equals no key of the
\* section but is less than 1e-12 away from one of them receives the values
\* of a row of the section whose key is that close, and no filler
C4_WithinToleranceMatches ==
  [][(MergeSection /\ conv = "dc") =>
       \A j \in 1..Len(sections[1].data) :
         (/\ WithinTolerance(sections[1].data[j][1], sections[sec]) # {}
          /\ \A r \in 1..Len(sections[sec].data) :
               ~FloatEq(sections[sec].data[r][1], sections[1].data[j][1]))
         => \E r \in WithinTolerance(sections[1].data[j][1], sections[sec]) :
              merged_data'[j] = merged_data[j] \o Tail(sections[sec].data[r])]_vars

\* the key 1.0000000000001 of the second section has been matched to the
\* primary key 1.0
C4_Witness ==
  /\ conv = "dc" /\ pc = "merge" /\ sec = 3
  /\ file = Paginated(<<K_1>>, <<L_volt_current, L_ng_vs>>, <<K_1e13>>, L_blank)
  /\ merged_data = << <<Dec(1, 0), Dec(1, -9), Dec(3, -9)>> >>

\* the section has the keys of the primary section, key for key
SameKeys(primary, section) ==
  /\ Len(section.data) = Len(primary.data)
  /\ \A j \in 1..Len(primary.data) :
       FloatEq(section.data[j][1], primary.data[j][1])

\* C5: merging a section that has the keys of the primary section, key for
\* key, appends to every primary row the non-index values of a row of the
\* section with the same key, so no not-a-number filler is generated
C5_IdenticalKeysAppend ==
  [][(MergeSection /\ SameKeys(sections[1], sections[sec])) =>
       \A j \in 1..Len(sections[1].data) :
         \E r \in 1..Len(sections[sec].data) :
           /\ FloatEq(sections[sec].data[r][1], sections[1].data[j][1])
           /\ merged_data'[j] = merged_data[j] \o Tail(sections[sec].data[r])]_vars

\* two rows of a second section with the keys of the primary section have
\* been appended
C5_Witness ==
  /\ pc = "merge" /\ sec = 3
  /\ Len(sections[1].data) = 2
  /\ SameKeys(sections[1], sections[2])
  /\ \A j \in 1..2 :
       merged_data[j] = sections[1].data[j] \o Tail(sections[2].data[j])

\* the line satisfies the data-row grammar: it starts like a number, is no
\* end marker, and every token decodes
RowGrammar(l) ==
  /\ ~LineFacts[l].blank
  /\ ~LineFacts[l].end_marker
  /\ RowAccepted(LineFacts[l].row)

\* the report has a header line, and no line after its first header line
\* satisfies the data-row grammar
HeaderButNoRow ==
  /\ \E h \in 1..Len(file) : LineFacts[file[h]].header[conv]
  /\ \A k \in 1..Len(file) :
       (\E h \in 1..(k - 1) : LineFacts[file[h]].header[conv])
         => ~RowGrammar(file[k])

\* C6: a multi-section extractor raises ValueError on a report with a header
\* line and no data row after it, and never returns a table with zero rows
C6_NoRowsRaises ==
  /\ (MultiSection /\ Parsed /\ HeaderButNoRow) => ret = Raise("ValueError")
  /\ (MultiSection /\ Returned) => Len(ret.data) > 0

\* a report with a header line and no data row has been rejected
C6_Witness ==
  /\ MultiSection /\ pc = "exit" /\ has_arg
  /\ HeaderButNoRow
  /\ ret = Raise("ValueError")

\* no data section was found or zero rows were extracted
NoDataFound == ret.k = "raise" \/ (ret.k = "ok" /\ Len(ret.data) = 0)

\* C7: every converter command that finds no data section or extracts zero
\* rows ends with a non-zero exit code and a diagnostic on the error stream,
\* and writes no output table
C7_NoDataFailsEverywhere ==
  (pc = "exit" /\ has_arg /\ NoDataFound) =>
    /\ exit_code # 0
    /\ \E k \in 1..Len(stderr) : stderr[k] \in {"traceback", "warning"}
    /\ out_file = NoFile

\* no line of the report matches the header grammar of the parser
NoHeaderLine ==
  \A k \in 1..Len(file) :
    IF MultiSection THEN ~LineFacts[file[k]].header[conv]
    ELSE ~LineFacts[file[k]].compat_header

C9_RowsAsWideAsHeader ==
  \A s \in 1..Len(sections) :
    \A j \in 1..Len(sections[s].data) :
      Len(sections[s].data[j]) = Len(sections[s].columns)

\* C10: the column identifiers of the table returned by a multi-section
\* extractor are pairwise distinct
C10_DistinctColumns ==
  (MultiSection /\ Returned) =>
    \A a, b \in 1..Len(ret.columns) :
      a # b => ret.columns[a] # ret.columns[b]


(***************************************************************************)
(* Claims on the decoder, checked under DecodeSpec                         *)
(***************************************************************************)
\* the power of ten the specification gives for each suffix, 0 without one
ClaimedMagnitude(suf) ==
  CASE suf = "a" -> -18 [] suf = "f" -> -15 [] suf = "p" -> -12
    [] suf = "n" -> -9  [] suf = "u" -> -6  [] suf = "m" -> -3
    [] suf = "k" -> 3   [] suf = "x" -> 6   [] suf = "g" -> 9
    [] suf = "t" -> 12  [] OTHER -> 0

\* the mantissa of a numeral times its magnitude, negated with a leading -
ClaimedValue(g) ==
  Num(g.neg, DigitSeq(g.m.ip \o g.m.fp), ClaimedMagnitude(g.suf) - Len(g.m.fp))

\* C11: on a token made of an optional -, a decimal mantissa and an optional
\* suffix among a f p n u m k x g t, every converter's parse_hspice_value
\* returns the mantissa times the suffix's power of ten (1e-18 ... 1e12, 1
\* without a suffix), negated when the token starts with -.
C11_MantissaTimesMagnitude ==
  \A g \in Numerals :
    pc = "decoded" /\ token = TokenOf(g) => result = ClaimedValue(g)

\* -137.2197n has been decoded to -1.372197e-7
C11_Witness ==
  /\ pc = "decoded"
  /\ token = <<"-", "1", "3", "7", ".", "2", "1", "9", "7", "n">>
  /\ result = [k |-> "num", neg |-> TRUE, dig |-> <<1, 3, 7, 2, 1, 9, 7>>,
               exp |-> -13]

\* tokens that are a sign alone or a suffix letter alone
SignOrSuffixOnly == {<<"-">>, <<"+">>, <<"n">>, <<"-", "n">>}

\* C12: for every token with a non-blank character parse_hspice_value returns a finite number
\* or raises ValueError: it never returns an infinity or a not-a-number, and
\* a token that is only a sign or only a suffix letter raises ValueError.
C12_FiniteOrValueError ==
  pc = "decoded" /\ Strip(token) # <<>> /\ conv \in {"dc", "trans"} =>
    /\ result.k \in {"num", "err"}
    /\ token \in SignOrSuffixOnly => result = ValueErr

(***************************************************************************)
(* Claims on the merge and the scanner, checked under Spec                 *)
(***************************************************************************)
\* abs(a - b) of two numbers
AbsDiff(a, b) ==
  LET e0 == Min(a.exp, b.exp)
      da == a.dig \o Zeros(a.exp - e0)
      db == b.dig \o Zeros(b.exp - e0)
      n  == Max(Len(da), Len(db))
  IN Num(FALSE,
         IF a.neg # b.neg THEN DigitsAdd(PadLeft(da, n), PadLeft(db, n), 0)
         ELSE IF DigitsGE(PadLeft(da, n), PadLeft(db, n))
           THEN DigitsSub(PadLeft(da, n), PadLeft(db, n), 0)
         ELSE DigitsSub(PadLeft(db, n), PadLeft(da, n), 0),
         e0)

\* x < y for two numbers that are not negative
NumLess(x, y) ==
  LET e0 == Min(x.exp, y.exp)
      dx == x.dig \o Zeros(x.exp - e0)
      dy == y.dig \o Zeros(y.exp - e0)
      n  == Max(Len(dx), Len(dy))
  IN ~DigitsGE(PadLeft(dx, n), PadLeft(dy, n))

\* the rows of the section whose key is within the converter's tolerance of key
Near(key, section) ==
  {r \in 1..Len(section.data) :
     AbsDiffLess(section.data[r][1], key, TolExp(conv))}

\* no row of the section has exactly this key
NoExactKey(key, section) ==
  \A r \in 1..Len(section.data) : ~FloatEq(section.data[r][1], key)

\* row r has a key at least as close to key as every row within the tolerance
Closest(r, key, section) ==
  \A q \in Near(key, section) :
    ~NumLess(AbsDiff(section.data[q][1], key), AbsDiff(section.data[r][1], key))

\* C14: when a primary key equals no key of the second section but several
\* of its keys are within the tolerance, the merge appends the values of the
\* row whose key is closest to the primary key.
C14_ClosestKeyUsed ==
  (MultiSection /\ pc = "merge" /\ sec = 3) =>
    \A j \in 1..Len(sections[1].data) :
      (/\ NoExactKey(sections[1].data[j][1], sections[2])
       /\ Near(sections[1].data[j][1], sections[2]) # {})
      => \E r \in Near(sections[1].data[j][1], sections[2]) :
           /\ Closest(r, sections[1].data[j][1], sections[2])
           /\ merged_data[j] = sections[1].data[j] \o Tail(sections[2].data[r])

\* the cells a merge step has appended to merged row j
Appended(j) ==
  SubSeq(merged_data'[j], Len(merged_data[j]) + 1, Len(merged_data'[j]))

\* the key of row r of the section equals key or is within the tolerance
KeyMatches(r, key, section) ==
  \/ FloatEq(section.data[r][1], key)
  \/ AbsDiffLess(section.data[r][1], key, TolExp(conv))

\* C15: the values a merge step appends to a merged row are either all
\* not-a-number, or the non-index values of a row of the merged section whose
\* key equals the primary key or is within the tolerance of it (1e-12 for
\* the dc converter, 1e-15 for the transient one).
C15_AppendedFromMatchingRow ==
  [][MergeSection =>
       \A j \in 1..Len(merged_data) :
         /\ merged_data'[j] = merged_data[j] \o Appended(j)
         /\ \/ \A k \in 1..Len(Appended(j)) : IsNaN(Appended(j)[k])
            \/ \E r \in 1..Len(sections[sec].data) :
                 /\ KeyMatches(r, sections[1].data[j][1], sections[sec])
                 /\ Appended(j) = Tail(sections[sec].data[r])]_vars

\* of two primary rows the first has been given the value of a second-section
\* row with a key within the tolerance and the second a not-a-number
C15_Witness ==
  /\ MultiSection /\ pc = "merge" /\ sec = 3
  /\ Len(sections[1].data) = 2 /\ Len(sections[2].data) = 1
  /\ ~FloatEq(sections[2].data[1][1], sections[1].data[1][1])
  /\ KeyMatches(1, sections[1].data[1][1], sections[2])
  /\ merged_data[1] = sections[1].data[1] \o Tail(sections[2].data[1])
  /\ Len(merged_data[2]) = Len(sections[1].data[2]) + 1
  /\ IsNaN(merged_data[2][Len(merged_data[2])])

\* s begins with p
Prefix(p, s) == Len(p) <= Len(s) /\ SubSeq(s, 1, Len(p)) = p

\* the name is the primary section's, or the dc converter's v(sweep) for a
\* first column named sweep
PrimaryName(k, name) ==
  \/ name = sections[1].columns[k]
  \/ /\ conv = "dc" /\ k = 1
     /\ sections[1].columns[1] = W_sweep
     /\ name = VName(W_sweep)

\* C16: the table returned by a multi-section extractor has the rows of the
\* primary section in their order, merged row j beginning with exactly the
\* cells of primary row j, and its leading column names are those of the
\* primary section (but for the dc converter's renaming of sweep).
C16_PrimaryKept ==
  (MultiSection /\ Returned) =>
    /\ Len(ret.data) = Len(sections[1].data)
    /\ \A j \in 1..Len(sections[1].data) : Prefix(sections[1].data[j], ret.data[j])
    /\ Len(ret.columns) >= Len(sections[1].columns)
    /\ \A k \in 1..Len(sections[1].columns) : PrimaryName(k, ret.columns[k])

\* a table of two rows has been returned from three sections, each row
\* longer than its primary row
C16_Witness ==
  /\ MultiSection /\ Returned /\ Len(sections) = 3
  /\ Len(ret.data) = 2
  /\ sections[1].data[1] # sections[1].data[2]
  /\ \A j \in 1..2 :
       /\ Prefix(sections[1].data[j], ret.data[j])
       /\ Len(ret.data[j]) > Len(sections[1].data[j])

\* C17: when the line after a header line looks like a data row (it starts
\* with a digit or a sign and every token decodes), the multi-section scanner
\* keeps it as the first data row of the section and names the columns with
\* col<N> placeholders instead of consuming it as a sub-header.
C17_DataLineAfterHeaderKept ==
  (/\ MultiSection /\ Returned
   /\ Len(file) >= 2
   /\ LineFacts[file[1]].header[conv]
   /\ RowGrammar(file[2]))
  => /\ ret.data[1] = DecodeRow(LineFacts[file[2]].parts)
     /\ \A k \in 1..Len(ret.columns) : Contains(ret.columns[k], W_col)

\* the column is made of this type token and this name: v(name) for volt or
\* voltage, i(name) for current; a time token gives time, or i(name) where
\* the scanner has no test for it
Pairs(col, htype, name) ==
  IF Lower(htype) \in {W_volt, W_voltage} THEN col = VName(name)
  ELSE IF Lower(htype) = W_current THEN col = IName(name)
  ELSE col \in {W_time, IName(name)}

\* C18: in the multi-section scanners, a header with more type tokens than
\* the sub-header has names gives a first column that is the unnamed index
\* (sweep for the dc converter, time for the transient one), the k-th name
\* going with the (k+1)-th type; with as many names as types the k-th name
\* goes with the k-th type.
C18_NamesAlignWithTypes ==
  [][(ScanHeader /\ i + 1 < Len(file)) =>
       /\ Len(columns') = Len(LineFacts[file[i + 1]].parts)
       /\ Len(LineFacts[file[i + 2]].parts) < Len(LineFacts[file[i + 1]].parts) =>
            /\ conv = "dc" => columns'[1] = W_sweep
            /\ conv = "trans" => columns'[1] = W_time
            /\ \A k \in 1..Len(LineFacts[file[i + 2]].parts) :
                 Pairs(columns'[k + 1], LineFacts[file[i + 1]].parts[k + 1],
                       LineFacts[file[i + 2]].parts[k])
       /\ Len(LineFacts[file[i + 2]].parts) = Len(LineFacts[file[i + 1]].parts) =>
            \A k \in 1..Len(LineFacts[file[i + 2]].parts) :
              Pairs(columns'[k], LineFacts[file[i + 1]].parts[k],
                    LineFacts[file[i + 2]].parts[k])]_vars

\* the dc scanner has read the header "volt current" with the sub-header "y":
\* the columns are sweep and i(y)
C18_Witness ==
  /\ conv = "dc" /\ pc = "rows" /\ i = 2
  /\ file[1] = L_volt_current /\ file[2] = L_y
  /\ columns = <<W_sweep, IName(<<"y">>)>>

\* a line that ends a section according to the specification: it starts with
\* y, x, *, $ or > in either case, or contains job or concluded
ClaimedTerminator(line) ==
  /\ Strip(line) # <<>>
  /\ \/ LowerChar(Strip(line)[1]) \in {"y", "x", "*", "$", ">"}
     \/ Contains(Lower(line), <<"j", "o", "b">>)
     \/ Contains(Lower(line), <<"c", "o", "n", "c", "l", "u", "d", "e", "d">>)

\* C19: while the rows of a section are collected, a blank line is passed
\* over without ending the section, and the section ends at the first line
\* that starts with y, x, *, $ or > or contains job or concluded, so that no
\* line after it is added to the section.
C19_SectionEndsAtTerminator ==
  [][(MultiSection /\ pc = "rows" /\ i < Len(file)) =>
       /\ Strip(file[i + 1]) = <<>> =>
            pc' = "rows" /\ i' = i + 1 /\ data_rows' = data_rows
       /\ ClaimedTerminator(file[i + 1]) =>
            pc' = "scan" /\ i' = i]_vars

\* the rows of the lines of f from index a up to the first line that ends
\* the section (an end marker or a line that does not start like a number),
\* blank lines and lines with a token that fails to decode left out
RECURSIVE RowsUntilEnd(_, _)
RowsUntilEnd(f, a) ==
  IF a > Len(f) THEN <<>>
  ELSE IF LineFacts[f[a]].blank THEN RowsUntilEnd(f, a + 1)
  ELSE IF LineFacts[f[a]].end_marker THEN <<>>
  ELSE IF RowAccepted(LineFacts[f[a]].row)
    THEN <<LineFacts[f[a]].row>> \o RowsUntilEnd(f, a + 1)
  ELSE RowsUntilEnd(f, a + 1)

\* C20: a data line with a token that fails to decode costs only its own
\* row: for a report that begins with a header and a sub-header line, the
\* returned rows begin with the rows of all the lines that decode, up to the
\* line that ends the first section, the lines after a failing one included.
C20_BadRowDroppedOnly ==
  (/\ MultiSection /\ Returned
   /\ Len(file) >= 3
   /\ LineFacts[file[1]].header[conv]
   /\ RowsUntilEnd(file, 3) # <<>>)
  => LET rows == RowsUntilEnd(file, 3)
     IN /\ Len(ret.data) = Len(rows)
        /\ \A j \in 1..Len(rows) : Prefix(rows[j], ret.data[j])

\* the report with the line "0.2 4z" between two rows has given both rows
C20_Witness ==
  /\ conv = "dc" /\ Returned
  /\ file = <<L_volt_current, L_ng_vd, L_row2, L_rowbad, L_row3>>
  /\ ret.data = <<LineFacts[L_row2].row, LineFacts[L_row3].row>>

(***************************************************************************)
(* write_csv of the dcnfet and transnfet converters at the level of text,  *)
(* and load_csv of hspice/dcnfet/plot_dc_currents.py                       *)
(***************************************************************************)
\* sep.join(cells)
RECURSIVE Join(_, _)
Join(cells, sep) ==
  IF cells = <<>> THEN <<>>
  ELSE IF Len(cells) = 1 THEN cells[1]
  ELSE cells[1] \o sep \o Join(Tail(cells), sep)

\* the exponent digits of the e format: at least two
RECURSIVE ExpDigits(_)
ExpDigits(j) ==
  IF j < 10 THEN <<"0", Digits[j + 1]>>
  ELSE IF j < 100 THEN IntToStr(j)
  ELSE <<Digits[(j \div 100) + 1]>> \o ExpDigits(j % 100)

ExponentText(e) ==
  IF e < 0 THEN <<"-">> \o ExpDigits(0 - e) ELSE <<"+">> \o ExpDigits(e)

\* the first eleven significant digits, rounded on the twelfth; twelve
\* digits 1 0 ... 0 when the rounding carries out of the first
Rounded11(d) ==
  IF Len(d) <= 11 THEN d \o Zeros(11 - Len(d))
  ELSE IF d[12] >= 5 THEN DigitsAdd(SubSeq(d, 1, 11), Zeros(10) \o <<1>>, 0)
  ELSE SubSeq(d, 1, 11)

\* d.dddddddddd
MantissaText(d) ==
  <<Digits[d[1] + 1], ".">> \o [k \in 1..10 |-> Digits[d[k + 1] + 1]]

\* [-]d.dddddddddde[+-]dd
SciText(neg, d, adj) ==
  (IF neg THEN <<"-">> ELSE <<>>) \o MantissaText(d) \o <<"e">> \o ExponentText(adj)

SciRounded(neg, d, adj) == SciText(neg, d, IF Len(d) = 12 THEN adj + 1 ELSE adj)

\* f'{v:.10e}'
Format10e(v) ==
  IF v.k = "nan" THEN <<"n", "a", "n">>
  ELSE IF v.k = "inf" THEN (IF v.neg THEN <<"-">> ELSE <<>>) \o <<"i", "n", "f">>
  ELSE IF v.dig = <<>> THEN SciText(FALSE, Zeros(11), 0)
  ELSE SciRounded(v.neg, Rounded11(v.dig), Len(v.dig) + v.exp - 1)

\* ','.join(f'{v:.10e}' for v in row)
RowText(row) == Join([k \in 1..Len(row) |-> Format10e(row[k])], <<",">>)

\* the lines write_csv writes: the header, then one line per row
CsvLines(cols, data) ==
  [k |-> "text",
   lines |-> <<Join(cols, <<",">>)>> \o [r \in 1..Len(data) |-> RowText(data[r])]]

\* the index of the first line that is neither blank nor a # comment
\* (counted from 1), the first line when there is none
HeaderIdx(lines) ==
  IF \E k \in 1..Len(lines) : Strip(lines[k]) # <<>> /\ Strip(lines[k])[1] # "#"
  THEN Least({k \in 1..Len(lines) :
                Strip(lines[k]) # <<>> /\ Strip(lines[k])[1] # "#"})
  ELSE 1

\* str.split(ch)
RECURSIVE SplitOn(_, _)
SplitOn(s, ch) ==
  IF \E k \in 1..Len(s) : s[k] = ch
  THEN <<SubSeq(s, 1, Least({k \in 1..Len(s) : s[k] = ch}) - 1)>>
       \o SplitOn(SubSeq(s, Least({k \in 1..Len(s) : s[k] = ch}) + 1, Len(s)), ch)
  ELSE <<s>>

\* str.replace(a, b) for single characters
Replace(s, a, b) == [k \in 1..Len(s) |-> IF s[k] = a THEN b ELSE s[k]]

StripAll(cells) == [k \in 1..Len(cells) |-> Strip(cells[k])]

\* the cells of a line: split on commas and stripped, or split on whitespace
Cells(line, comma) == IF comma THEN StripAll(SplitOn(line, ",")) ELSE Split(line)

Underscored(cells) == [k \in 1..Len(cells) |-> Replace(cells[k], "-", "_")]

\* a name seen before gets the suffix _n, n counting its earlier occurrences
Deduplicated(raw) ==
  [k \in 1..Len(raw) |->
     IF \E j \in 1..(k - 1) : raw[j] = raw[k]
     THEN raw[k] \o <<"_">> \o IntToStr(Cardinality({j \in 1..(k - 1) : raw[j] = raw[k]}))
     ELSE raw[k]]

\* [float(x) for x in cells]
FloatRow(cells) == [k \in 1..Len(cells) |-> Float(cells[k])]

\* a stripped line that is read as data: it starts with -, a digit or a dot
IsDataLine(s) ==
  s # <<>> /\ s[1] # "#" /\ (s[1] \in {"-", "."} \/ IsDigit(s[1]))

NoValueError(row) == \A k \in 1..Len(row) : row[k].k # "err"

\* data_lines of the lines from index a on
RECURSIVE DataLines(_, _, _)
DataLines(lines, a, comma) ==
  IF a > Len(lines) THEN <<>>
  ELSE IF /\ IsDataLine(Strip(lines[a]))
          /\ NoValueError(FloatRow(Cells(Strip(lines[a]), comma)))
    THEN <<FloatRow(Cells(Strip(lines[a]), comma))>> \o DataLines(lines, a + 1, comma)
  ELSE DataLines(lines, a + 1, comma)

\* load_csv has returned data, header (the metadata, empty without # lines,
\* is left out)
Loaded(header, data) == [k |-> "ok", header |-> header, data |-> data]

\* np.array(data_lines) and the structured array filled column by column:
\* rows of unequal length or repeated field names raise, an empty array has
\* no second dimension, a column without values stays zero
Structured(header, rows) ==
  IF \E r \in 1..Len(rows) : Len(rows[r]) # Len(rows[1])
    THEN Raise("ValueError")
  ELSE IF \E j, k \in 1..Len(header) : j # k /\ header[j] = header[k]
    THEN Raise("ValueError")
  ELSE IF rows = <<>> /\ header # <<>> THEN Raise("IndexError")
  ELSE Loaded(header,
              [r \in 1..Len(rows) |->
                 [j \in 1..Len(header) |->
                    IF j <= Len(rows[r]) THEN rows[r][j] ELSE Num(FALSE, <<>>, 0)]])

LoadWith(lines, h, comma) ==
  Structured(Deduplicated(Underscored(Cells(lines[h], comma))),
             DataLines(lines, h + 1, comma))

LoadFrom(lines, h) == LoadWith(lines, h, \E k \in 1..Len(lines[h]) : lines[h][k] = ",")

\* load_csv on the lines of a file
load_csv(lines) == LoadFrom(lines, HeaderIdx(lines))

(***************************************************************************)
(* A table written by write_csv and loaded by load_csv                     *)
(***************************************************************************)
MaxTableRows == 2

TableColumns ==
  { <<VName(<<"n", "g">>)>>, <<VName(<<"n", "g">>), IName(<<"v", "d">>)>> }

\* 0, 1e-9, -1.372197e-7, 1.0000000000001, 9.99999999999, nan, inf, -inf
TableValues ==
  { Num(FALSE, <<>>, 0), Num(FALSE, <<1>>, -9),
    Num(TRUE, <<1, 3, 7, 2, 1, 9, 7>>, -13),
    Num(FALSE, <<1, 0, 0, 0, 0, 0, 0, 0, 0, 0, 0, 0, 0, 1>>, -13),
    Num(FALSE, <<9, 9, 9, 9, 9, 9, 9, 9, 9, 9, 9, 9>>, -11),
    NaN, Inf(FALSE), Inf(TRUE) }

\* tables of up to max_rows rows, each row as wide as the column list
Tables(max_rows) ==
  UNION { { Return(cols, data) :
              data \in UNION { [1..n -> [1..Len(cols) -> TableValues]] :
                               n \in 1..max_rows } } :
          cols \in TableColumns }

other_vars == <<conv, has_arg, file, token, result, scan_vars, merge_vars,
                exit_code, stderr, fixes_made>>

\* write_csv(columns, data, output_file)
WriteCsv ==
  /\ pc = "table"
  /\ out_file' = CsvLines(ret.columns, ret.data)
  /\ pc' = "written"
  /\ UNCHANGED <<other_vars, ret, loaded>>

\* data, header, metadata = load_csv(filepath)
LoadCsv ==
  /\ pc = "written"
  /\ loaded' = load_csv(out_file.lines)
  /\ pc' = "loaded"
  /\ UNCHANGED <<other_vars, ret, out_file>>

RoundTripInit ==
  /\ conv \in {"dc", "trans"}
  /\ ret \in Tables(MaxTableRows)
  /\ pc = "table"
  /\ out_file = NoFile
  /\ loaded = NotLoaded
  /\ fixes_made = 0
  /\ has_arg = FALSE
  /\ file = <<>>
  /\ token = <<>>
  /\ result = NoValue
  /\ i = 0
  /\ columns = <<>> /\ data_rows = <<>> /\ sections = <<>>
  /\ all_columns = <<>> /\ merged_data = <<>> /\ sec = 0
  /\ exit_code = -1
  /\ stderr = <<>>

RoundTripNext ==
  \/ WriteCsv
  \/ LoadCsv

RoundTripSpec == RoundTripInit /\ [][RoundTripNext]_vars

\* equal, or both numbers and closer than one unit of the eleventh
\* significant digit of a
WithinRendering(a, b) ==
  \/ a = b
  \/ a.k = "num" /\ b.k = "num" /\ AbsDiffLess(a, b, Len(a.dig) + a.exp - 11)

\* row a of the table and row b of the loaded data agree cell by cell
SameRow(a, b) ==
  Len(a) = Len(b) /\ \A k \in 1..Len(a) : WithinRendering(a[k], b[k])

\* C13: a table written by write_csv and read back by load_csv comes back
\* with the same number of rows, each row with the same number of values and
\* each value equal within the precision of the rendering, rows with
\* not-a-number cells included.
C13_RoundTripReproducesRows ==
  pc = "loaded" =>
    /\ loaded.k = "ok"
    /\ Len(loaded.data) = Len(ret.data)
    /\ \A r \in 1..Len(ret.data) : SameRow(ret.data[r], loaded.data[r])

(***************************************************************************)
(* Claims on the column names, the header test and the course of the scan *)
(***************************************************************************)
\* the column the specification gives a slot of this type and this name
TypedAs(col, htype, name) ==
  IF Lower(htype) \in {W_volt, W_voltage} THEN col = VName(name)
  ELSE IF Lower(htype) = W_current THEN col = IName(name)
  ELSE col = W_time

\* C21: every column of a section of the multi-section scanners is named by
\* the type token of its slot: v(name) for volt or voltage, i(name) for
\* current, the literal time or sweep for the index column; no slot gets the
\* prefix of another type.
C21_ColumnsNamedByType ==
  [][(ScanHeader /\ i + 1 < Len(file)) =>
       /\ Len(LineFacts[file[i + 2]].parts) < Len(LineFacts[file[i + 1]].parts) =>
            /\ columns'[1] \in {W_time, W_sweep}
            /\ \A k \in 1..Len(LineFacts[file[i + 2]].parts) :
                 TypedAs(columns'[k + 1], LineFacts[file[i + 1]].parts[k + 1],
                         LineFacts[file[i + 2]].parts[k])
       /\ Len(LineFacts[file[i + 2]].parts) = Len(LineFacts[file[i + 1]].parts) =>
            \A k \in 1..Len(LineFacts[file[i + 2]].parts) :
              TypedAs(columns'[k], LineFacts[file[i + 1]].parts[k],
                      LineFacts[file[i + 2]].parts[k])]_vars

\* a line made, in either case and apart from surrounding blanks, of one or
\* more tokens among time, volt, voltage and current
ClaimedHeader(line) ==
  /\ Split(Lower(Strip(line))) # <<>>
  /\ \A k \in 1..Len(Split(Lower(Strip(line)))) :
       Split(Lower(Strip(line)))[k] \in {W_time, W_volt, W_voltage, W_current}

\* C22: the outer loop of the multi-section scanners (dc and transient)
\* takes a line as a header exactly when, case and surrounding blanks apart,
\* it is made of one or more tokens among time, volt, voltage and current;
\* any other line is passed over.
C22_HeaderIffTypeTokens ==
  [][(pc = "scan" /\ i < Len(file)) =>
       ((pc' # "scan") <=> ClaimedHeader(file[i + 1]))]_vars

\* the longest report of the scans run to their end
MaxScanLines == 3

\* the reports of these scans
ScanReports(max_lines) ==
  SeqsUpTo(ScanVocab, max_lines) \cup InterruptedReports
  \cup MisplacedTimeReports

ScanInit ==
  /\ conv \in {"dc", "trans"}
  /\ has_arg = TRUE
  /\ file \in ScanReports(MaxScanLines)
  /\ pc = "main"
  /\ i = 0
  /\ columns = <<>> /\ data_rows = <<>> /\ sections = <<>>
  /\ all_columns = <<>> /\ merged_data = <<>> /\ sec = 0
  /\ ret = NoRet
  /\ exit_code = -1
  /\ stderr = <<>>
  /\ out_file = NoFile
  /\ token = <<>>
  /\ result = NoValue
  /\ loaded = NotLoaded
  /\ fixes_made = 0

\* the steps of the section scan of parse_hspice_dc_output and
\* parse_hspice_trans_output
ScanNext ==
  \/ MainParse
  \/ ScanHeader
  \/ ScanSkip
  \/ ScanEnd
  \/ RowBlank
  \/ RowBreak
  \/ RowData
  \/ RowsEnd

\* the scan is run to its end: the program takes a step whenever it can
\* (one thread, no suspension point)
ScanSpec == ScanInit /\ [][ScanNext]_vars /\ WF_vars(ScanNext)

\* what is left of the scan: two for every line not yet passed, one more
\* inside the row loop, nothing once the scan is over
ScanMeasure ==
  IF pc = "rows" THEN 2 * (Len(file) - i) + 2
  ELSE IF pc = "scan" THEN 2 * (Len(file) - i) + 1
  ELSE 0

\* C23: the section scan is one forward pass that terminates: the line index
\* never decreases, every iteration of the outer loop on a line moves it
\* forward by at least one line, also on the line that stopped the row loop,
\* each step of either loop lowers a measure bounded by twice the number
\* of lines plus two, and the scan comes to its end.
C23_ScanTerminates ==
  /\ [][(pc \in {"scan", "rows"}) =>
          (/\ i' >= i
           /\ (pc = "scan" /\ i < Len(file)) => i' > i
           /\ ScanMeasure' \in 0..(ScanMeasure - 1)
           /\ ScanMeasure <= 2 * Len(file) + 2)]_vars
  /\ (pc = "scan") ~> (pc = "scanned")

\* the row loop has stopped on a line that is left to the outer loop
C23_Witness ==
  /\ pc = "scan" /\ i < Len(file) /\ i >= 2 /\ sections # <<>>
  /\ LineFacts[file[i + 1]].end_marker

\* the step of the row loop on a header line: the rows end there, the section
\* is closed and the line is left where it is
StopsOnHeader ==
  (pc = "rows" /\ i < Len(file) /\ LineFacts[file[i + 1]].header[conv]) =>
    /\ i' = i /\ pc' = "scan"
    /\ sections' \in {sections,
                      Append(sections, [columns |-> columns, data |-> data_rows])}

\* the step of the outer loop on a header line: the line and the one after it
\* are consumed and the row loop of a new section begins with no row yet (a
\* header on the last line has no line after it and ends the scan)
StartsSection ==
  (pc = "scan" /\ i < Len(file) /\ LineFacts[file[i + 1]].header[conv]) =>
    IF i + 1 < Len(file)
      THEN pc' = "rows" /\ i' = i + 2 /\ data_rows' = <<>>
      ELSE pc' = "scanned"

\* the sections are never reordered: a step leaves them as they are or adds,
\* after them, the section whose header was scanned last
InHeaderOrder ==
  (pc \in {"scan", "rows"}) =>
    \/ sections' = sections
    \/ /\ pc = "rows" /\ data_rows # <<>>
       /\ sections' = Append(sections, [columns |-> columns, data |-> data_rows])

\* C24: a header line met while the rows of a section are read ends that
\* section and is not consumed by the row loop; the outer loop then scans it
\* as the header of a new section, so every header line that is not read as a
\* sub-header starts a section scan, and the sections are kept in the order
\* of their header lines.
C24_HeaderEndsAndStartsSection ==
  [][StopsOnHeader /\ StartsSection /\ InHeaderOrder]_vars

\* the rows of the first section have ended on a header line, which has been
\* scanned with its sub-header as the header of a second section
C24_Witness ==
  /\ pc = "rows" /\ Len(sections) = 1 /\ i >= 5
  /\ LineFacts[file[i - 1]].header[conv]
  /\ data_rows = <<>>
  /\ columns # sections[1].columns

\* C25: the parse functions of the dc and transient converters never return
\* a table without rows: they raise ValueError or return one row at least,
\* so main never takes its "No data found" branch and every table it
\* receives is written.
C25_NeverZeroRows ==
  (MultiSection /\ Parsed) =>
    /\ \/ ret = Raise("ValueError")
       \/ Returned /\ Len(ret.data) >= 1
    /\ \A k \in 1..Len(stderr) : stderr[k] # "warning"
    /\ (pc = "exit" /\ Returned) =>
         exit_code = 0 /\ out_file = write_csv(ret.columns, ret.data)

\* main has written the table of one row that the transient parser returned
C25_Witness ==
  /\ conv = "trans" /\ pc = "exit" /\ Returned
  /\ Len(ret.data) = 1
  /\ stderr[Len(stderr)] = "wrote"

\* C26: on any text, the parse function of each converter returns a table or
\* raises ValueError; it never fails with another error, such as an index
\* out of range or a type error.
C26_ReturnsOrValueError ==
  Parsed => (Returned \/ ret = Raise("ValueError"))

(***************************************************************************)
(* The header of a file loaded by load_csv (plot_dc_currents.py and        *)
(* ngspice/compare_csv.py)                                                 *)
(***************************************************************************)
\* the most names on a header line
MaxNames == 3

N_h == <<"h">>

N_h_1 == <<"h", "_", "1">>

N_hm1 == <<"h", "-", "1">>

N_g == <<"g">>

HeaderNames == {N_h, N_h_1, N_hm1, N_g}

\* a data line of three values, with blanks and with commas
L_values == <<"1", " ", "2", " ", "3">>

L_csv_values == <<"1", ",", "2", ",", "3">>

\* files of a header line of up to max_names names, separated by blanks or
\* by commas, alone or followed by a data line
HeaderFiles(max_names) ==
  UNION { { <<Join(names, <<" ">>)>>, <<Join(names, <<" ">>), L_values>>,
            <<Join(names, <<",">>)>>, <<Join(names, <<",">>), L_csv_values>> } :
          names \in (SeqsUpTo(HeaderNames, max_names) \ {<<>>}) }

\* the two scripts with a load_csv
Loaders == {"plot_dc_currents", "compare_csv"}

\* whether the loader splits the lines on commas: plot_dc_currents.py does
\* when the header line has one, compare_csv.py never does
SplitsOnComma(loader, header_line) ==
  loader = "plot_dc_currents" /\ \E k \in 1..Len(header_line) : header_line[k] = ","

\* the list "header" of load_csv after the loop on the duplicate names
HeaderOf(loader, lines) ==
  Deduplicated(Underscored(Cells(lines[HeaderIdx(lines)],
                                 SplitsOnComma(loader, lines[HeaderIdx(lines)]))))

\* load_csv(filepath) of either script: the header is built, then the data
\* lines are read and the structured array is filled
LoadHeaderCsv ==
  /\ pc = "csv"
  /\ columns' = HeaderOf(conv, file)
  /\ loaded' = LoadWith(file, HeaderIdx(file),
                        SplitsOnComma(conv, file[HeaderIdx(file)]))
  /\ pc' = "loaded"
  /\ UNCHANGED <<conv, has_arg, file, token, result, i, data_rows, sections,
                 merge_vars, ret, exit_code, stderr, out_file, fixes_made>>

HeaderInit ==
  /\ conv \in Loaders
  /\ file \in HeaderFiles(MaxNames)
  /\ pc = "csv"
  /\ loaded = NotLoaded
  /\ fixes_made = 0
  /\ has_arg = TRUE
  /\ token = <<>>
  /\ result = NoValue
  /\ i = 0
  /\ columns = <<>> /\ data_rows = <<>> /\ sections = <<>>
  /\ all_columns = <<>> /\ merged_data = <<>> /\ sec = 0
  /\ ret = NoRet
  /\ exit_code = -1
  /\ stderr = <<>>
  /\ out_file = NoFile

HeaderNext == LoadHeaderCsv

HeaderSpec == HeaderInit /\ [][HeaderNext]_vars

\* C27: the handling of duplicate names in load_csv gives pairwise distinct
\* column names for every header line: a repeated name h becomes h_1, h_2,
\* and so on, and no renamed name is the same as another name of the header.
C27_HeaderNamesDistinct ==
  pc = "loaded" =>
    \A j, k \in 1..Len(columns) : j # k => columns[j] # columns[k]

(***************************************************************************)
(* fix_hspice_models.py: the brace expressions of a model file replaced by *)
(* their nominal values                                                    *)
(***************************************************************************)
SignChars == {"+", "-"}

\* the first index from p on whose character is not one of [0-9.]
RECURSIVE NumRunEnd(_, _)
NumRunEnd(s, p) ==
  IF p <= Len(s) /\ (IsDigit(s[p]) \/ s[p] = ".") THEN NumRunEnd(s, p + 1) ELSE p

\* the first index from p on whose character is not one of [0-9]
RECURSIVE DigitRunEnd(_, _)
DigitRunEnd(s, p) ==
  IF p <= Len(s) /\ IsDigit(s[p]) THEN DigitRunEnd(s, p + 1) ELSE p

\* where [0-9.]+ begins in expr: after the brace and an optional sign
AfterSign(expr) == IF Len(expr) >= 2 /\ expr[2] \in SignChars THEN 3 ELSE 2

\* where [0-9.]+ ends
MantissaEnd(expr) == NumRunEnd(expr, AfterSign(expr))

\* where the digits of an exponent begin, q being the index of its letter
ExpDigitsStart(expr, q) ==
  IF q + 1 <= Len(expr) /\ expr[q + 1] \in SignChars THEN q + 2 ELSE q + 1

\* where the match ends: after (?:e[+-]?[0-9]+)? when there is one at q
NominalEnd(expr, q) ==
  IF /\ q <= Len(expr) /\ expr[q] \in {"e", "E"}
     /\ DigitRunEnd(expr, ExpDigitsStart(expr, q)) > ExpDigitsStart(expr, q)
  THEN DigitRunEnd(expr, ExpDigitsStart(expr, q))
  ELSE q

\* re.match(r'\{([+-]?[0-9.]+(?:e[+-]?[0-9]+)?)', expr, re.IGNORECASE)
NominalMatches(expr) ==
  expr # <<>> /\ expr[1] = "{" /\ MantissaEnd(expr) > AfterSign(expr)

\* match.group(1), or expr without a match
extract_nominal_value(expr) ==
  IF NominalMatches(expr)
  THEN SubSeq(expr, 2, NominalEnd(expr, MantissaEnd(expr)) - 1)
  ELSE expr

\* the inner loop of fix_line: j and brace_count when it is left
RECURSIVE BraceScan(_, _, _)
BraceScan(s, j, brace_count) ==
  IF j <= Len(s) /\ brace_count > 0
  THEN BraceScan(s, j + 1,
                 IF s[j] = "{" THEN brace_count + 1
                 ELSE IF s[j] = "}" THEN brace_count - 1
                 ELSE brace_count)
  ELSE [j |-> j, brace_count |-> brace_count]

\* result[:i+1] + nominal + result[j:], the = being at index at (from 1)
\* and j the index after the closing brace
Spliced(s, at, j) ==
  SubSeq(s, 1, at) \o extract_nominal_value(SubSeq(s, at + 1, j - 1))
  \o SubSeq(s, j, Len(s))

\* the body of "if result[i:i+2] == '={'": the replacement when the braces
\* balance, nothing otherwise
FixAt(s, at, scan) ==
  IF scan.brace_count = 0 THEN Spliced(s, at, scan.j) ELSE s

\* result[i:i+2] == '={'
OpensGroup(s, at) == at < Len(s) /\ s[at] = "=" /\ s[at + 1] = "{"

\* a variant of FixFrom that goes on after a group it has left as it is
RECURSIVE FixFrom_skips(_, _)
FixFrom_skips(s, at) ==
  IF at > Len(s) THEN s
  ELSE IF OpensGroup(s, at)
    THEN FixFrom_skips(FixAt(s, at, BraceScan(s, at + 2, 1)),
                       IF FixAt(s, at, BraceScan(s, at + 2, 1)) = s
                          /\ BraceScan(s, at + 2, 1).brace_count = 0
                       THEN BraceScan(s, at + 2, 1).j
                       ELSE at + 1)
  ELSE FixFrom_skips(s, at + 1)

\* "while i < len(result)" from index at on
RECURSIVE FixFrom(_, _)
FixFrom(s, at) ==
  IF at > Len(s) THEN s
  ELSE IF OpensGroup(s, at)
    THEN FixFrom(FixAt(s, at, BraceScan(s, at + 2, 1)), at + 1)
  ELSE FixFrom(s, at + 1)

fix_line(s) == FixFrom(s, 1)

\* fixes_made: the lines that fix_line changes
RECURSIVE FixesMade(_)
FixesMade(lines) ==
  IF lines = <<>> THEN 0
  ELSE (IF fix_line(lines[1]) # lines[1] THEN 1 ELSE 0) + FixesMade(Tail(lines))

\* fixed_lines
FixedLines(lines) == [k \in 1..Len(lines) |-> fix_line(lines[k])]

\* the characters of the lines tried exhaustively, and their greatest length
FixChars == {"=", "{", "}", "1", "x", "."}

MaxChars == 5

\* two groups
P_two == <<"a", "=", "{", "1", "}", " ", "b", "=", "{", "2", "}">>

\* a group inside a group that is left as it is
P_inner == <<"a", "=", "{", "x", "=", "{", "1", "}", "}">>

\* a group inside a group that is replaced
P_outer == <<"a", "=", "{", "1", "+", "b", "=", "{", "2", "}", "}">>

\* a nominal value and a slope term
P_slope == <<"a", "=", "{", "-", "1", ".", "5", "e", "-", "9", "+", "s", "*", "(", "w", ")", "}">>

\* a brace that is never closed, then a group
P_open == <<"a", "=", "{", " ", "b", "=", "{", "1", "}">>

\* an exponent in upper case
P_exp == <<"a", "=", "{", "1", "E", "+", "5", "x", "}">>

\* a sign and a dot without a digit
P_dot == <<"a", "=", "{", "-", ".", "x", "}">>

\* no group
P_plain == <<"a", "=", "1">>

\* the letter e without an exponent
P_e == <<"a", "=", "{", "1", "e", "}">>

\* a brace right after the brace of the group
P_braces == <<"a", "=", "{", "{", "1", "}", "+", "x", "}">>

PickedLines == {P_two, P_inner, P_outer, P_slope, P_open, P_exp, P_dot, P_plain, P_e, P_braces}

\* the model files: one line of up to max_chars characters, or one or two of
\* the picked lines
ModelFiles(max_chars) ==
  {<<l>> : l \in SeqsUpTo(FixChars, max_chars)}
  \cup (SeqsUpTo(PickedLines, 2) \ {<<>>})

\* the lines written to a file
Written(lines) == [k |-> "text", lines |-> lines]

\* "if len(sys.argv) < 2": usage, exit status 1
FixUsage ==
  /\ pc = "model" /\ ~has_arg
  /\ exit_code' = 1
  /\ pc' = "exit"
  /\ UNCHANGED <<conv, has_arg, file, token, result, loaded, scan_vars,
                 merge_vars, ret, stderr, out_file, fixes_made>>

\* fixes = process_file(filepath): the file is read, every line goes
\* through fix_line, the lines are written back and the count is returned
ProcessFile ==
  /\ pc = "model" /\ has_arg
  /\ out_file' = Written(FixedLines(file))
  /\ fixes_made' = FixesMade(file)
  /\ pc' = "fixed"
  /\ UNCHANGED <<conv, has_arg, file, token, result, loaded, scan_vars,
                 merge_vars, ret, exit_code, stderr>>

\* the command run once more on the file it has rewritten
ProcessAgain ==
  /\ pc = "fixed"
  /\ out_file' = Written(FixedLines(out_file.lines))
  /\ fixes_made' = FixesMade(out_file.lines)
  /\ pc' = "refixed"
  /\ UNCHANGED <<conv, has_arg, file, token, result, loaded, scan_vars,
                 merge_vars, ret, exit_code, stderr>>

FixInit ==
  /\ conv = "fix"
  /\ has_arg \in BOOLEAN
  /\ file \in (IF has_arg THEN ModelFiles(MaxChars) ELSE {<<>>})
  /\ pc = "model"
  /\ out_file = NoFile
  /\ fixes_made = 0
  /\ loaded = NotLoaded
  /\ token = <<>>
  /\ result = NoValue
  /\ i = 0
  /\ columns = <<>> /\ data_rows = <<>> /\ sections = <<>>
  /\ all_columns = <<>> /\ merged_data = <<>> /\ sec = 0
  /\ ret = NoRet
  /\ exit_code = -1
  /\ stderr = <<>>

FixNext ==
  \/ FixUsage
  \/ ProcessFile
  \/ ProcessAgain

FixSpec == FixInit /\ [][FixNext]_vars

(***************************************************************************)
(* Claims on fix_line and process_file, checked under FixSpec              *)
(***************************************************************************)
\* a group opens at index at of s, its braces balance and its expression
\* begins with what the script reads as a number
NumericGroupAt(s, at) ==
  /\ OpensGroup(s, at)
  /\ BraceScan(s, at + 2, 1).brace_count = 0
  /\ NominalMatches(SubSeq(s, at + 1, BraceScan(s, at + 2, 1).j - 1))

\* C28: fix_line is idempotent: a second pass leaves every line of the first
\* pass as it is, lines with several groups, nested braces and groups inside
\* a group included; and after one pass no group is left whose braces
\* balance and whose expression begins with a number.
C28_FixLineIdempotent ==
  /\ pc \in {"fixed", "refixed"} =>
       \A k \in 1..Len(out_file.lines) :
         \A at \in 1..Len(out_file.lines[k]) : ~NumericGroupAt(out_file.lines[k], at)
  /\ pc = "refixed" =>
       /\ out_file.lines = FixedLines(file)
       /\ fixes_made = 0

\* the line with a group inside a group that is left as it is has gone
\* through fix_line twice
C28_Witness ==
  /\ pc = "refixed" /\ file = <<P_inner>>
  /\ out_file.lines = <<<<"a", "=", "{", "x", "=", "1", "}">>>>

\* where the digits and the single dot of a number end, from p on
NumberEnd(expr, p) ==
  IF DigitRunEnd(expr, p) <= Len(expr) /\ expr[DigitRunEnd(expr, p)] = "."
  THEN DigitRunEnd(expr, DigitRunEnd(expr, p) + 1)
  ELSE DigitRunEnd(expr, p)

\* the expression begins, after its brace, with an optionally signed number:
\* digits with at most one dot and one digit at least
StartsWithNumber(expr) ==
  /\ expr # <<>> /\ expr[1] = "{"
  /\ \E k \in AfterSign(expr)..(NumberEnd(expr, AfterSign(expr)) - 1) :
       IsDigit(expr[k])

\* that number, with its exponent when it has one
LeadingNumber(expr) ==
  SubSeq(expr, 2, NominalEnd(expr, NumberEnd(expr, AfterSign(expr))) - 1)

\* the group that opens at index at, when its braces balance
GroupAt(s, at) == SubSeq(s, at + 1, BraceScan(s, at + 2, 1).j - 1)

\* a group opens at index at, its braces balance and its expression begins
\* with a number
ReplaceableAt(s, at) ==
  /\ OpensGroup(s, at)
  /\ BraceScan(s, at + 2, 1).brace_count = 0
  /\ StartsWithNumber(GroupAt(s, at))

\* the line the specification gives, from index at on: every balanced group
\* that begins with a number becomes = and that number, every other
\* character is kept in its place
RECURSIVE ClaimedFrom(_, _)
ClaimedFrom(s, at) ==
  IF at > Len(s) THEN <<>>
  ELSE IF ReplaceableAt(s, at)
    THEN <<"=">> \o LeadingNumber(GroupAt(s, at))
         \o ClaimedFrom(s, BraceScan(s, at + 2, 1).j)
  ELSE <<s[at]>> \o ClaimedFrom(s, at + 1)

\* C29: fix_line changes nothing but the balanced groups that begin with a
\* number: a line without a group is unchanged, a brace that is never closed
\* and a group that does not begin with an optionally signed number are left
\* as they are, braces included, the text outside the replaced groups is
\* kept in order, and each replaced group becomes = followed by its leading
\* number alone.
C29_OnlyNumericGroupsReplaced ==
  pc = "fixed" =>
    \A k \in 1..Len(file) : out_file.lines[k] = ClaimedFrom(file[k], 1)

\* the groups that fix_line replaces in s from index at on
RECURSIVE ReplacedFrom(_, _)
ReplacedFrom(s, at) ==
  IF at > Len(s) THEN 0
  ELSE IF OpensGroup(s, at)
    THEN (IF NumericGroupAt(s, at) THEN 1 ELSE 0)
         + ReplacedFrom(FixAt(s, at, BraceScan(s, at + 2, 1)), at + 1)
  ELSE ReplacedFrom(s, at + 1)

\* the groups replaced in the lines of a file
RECURSIVE ReplacedIn(_)
ReplacedIn(lines) ==
  IF lines = <<>> THEN 0
  ELSE ReplacedFrom(lines[1], 1) + ReplacedIn(Tail(lines))

\* C30: the number process_file returns, printed as "Fixed N expressions",
\* is the number of groups replaced in the file, and the file written has
\* as many lines as the file read, its k-th line being fix_line of the k-th
\* line read.
C30_CountsReplacedExpressions ==
  pc = "fixed" =>
    /\ fixes_made = ReplacedIn(file)
    /\ Len(out_file.lines) = Len(file)
    /\ \A k \in 1..Len(file) : out_file.lines[k] = fix_line(file[k])
==========================================================================
